---- MODULE Spec2Model ----
(***************************************************************************)
(* A model of daterange/__init__.py: the DateRange iterator and the delta   *)
(* duration parser.                                                         *)
(*                                                                          *)
(* Python strings are sequences of code points, so that split, strip, the   *)
(* regular expressions, lower and int are computed character by             *)
(* character.  A datetime.timedelta is the normalised triple Python keeps   *)
(* (days, seconds, microseconds); a datetime.date is its proleptic          *)
(* Gregorian ordinal; a datetime.datetime is ordinal, second of the day and *)
(* microsecond.                                                             *)
(***************************************************************************)
EXTENDS Integers, Sequences, FiniteSets, TLC

VARIABLES
    pc,       \* DateRange: "start", "constructed" (the object exists), "failed"
    args,     \* DateRange: the constructor's arguments [date, to, step]
    self,     \* DateRange: the instance's fields [date, to, step], or None
    raised,   \* DateRange: the exception of the last call, or "none"
    ret,      \* DateRange: the value the last call returned, or None
    hist,     \* DateRange: the calls of next so far, in order: the current value
              \* each found, the exception it raised and the value it returned
    peers,    \* the DateRange instances built from the spellings of a step
    pieces,   \* delta: the specifiers the input string was written from
    string,   \* delta: the input string
    result    \* delta: the outcome of delta(string), or None before the call

vars == <<pc, args, self, raised, ret, hist, peers, pieces, string, result>>

None == [type |-> "NoneType"]

(***************************************************************************)
(* Bounds of the model.                                                     *)
(***************************************************************************)
MaxDay == 4          \* dates range over Date20090621 .. Date20090621 + MaxDay
MaxCalls == 6        \* calls of next on one instance
MaxN == 2            \* integer steps range over -1 .. MaxN
MaxSpecifiers == 2   \* specifiers joined into one delta string
MaxRaw == 3          \* length of the delta strings enumerated over RawAlphabet

\* datetime.date(2009, 6, 21).toordinal(), the start date of the doctests
Date20090621 == 733579

(***************************************************************************)
(* Characters and strings.  A character is its code point and a string the  *)
(* sequence of its characters.  A class of characters is two sequences of   *)
(* ranges <<first, last>> of code points: latin1 for U+0000 .. U+00FF and    *)
(* beyond for the characters after those.  The classes and the case mapping *)
(* are those of Python 3.11 (Unicode 14.0.0) over all of U+0000 .. U+10FFFF. *)
(***************************************************************************)
\* c is in one of the ranges
InRanges(c, ranges) ==
    \E i \in DOMAIN ranges : ranges[i][1] <= c /\ c <= ranges[i][2]

\* c is in the class
In(c, class) ==
    IF c <= 255 THEN InRanges(c, class.latin1) ELSE InRanges(c, class.beyond)

AllIn(s, class) == \A i \in DOMAIN s : In(s[i], class)

\* the printable characters of ASCII as they are written in a string literal
\* of the source: U+0020 .. U+005F and U+0061 .. U+007E
AsciiLow ==
    <<
      " ", "!", "\"", "#", "$", "%", "&", "'", "(", ")", "*", "+", ",", "-",
      ".", "/", "0", "1", "2", "3", "4", "5", "6", "7", "8", "9", ":", ";",
      "<", "=", ">", "?", "@", "A", "B", "C", "D", "E", "F", "G", "H", "I",
      "J", "K", "L", "M", "N", "O", "P", "Q", "R", "S", "T", "U", "V", "W",
      "X", "Y", "Z", "[", "\\", "]", "^", "_"
    >>

AsciiHigh ==
    <<
      "a", "b", "c", "d", "e", "f", "g", "h", "i", "j", "k", "l", "m", "n",
      "o", "p", "q", "r", "s", "t", "u", "v", "w", "x", "y", "z", "{", "|",
      "}", "~"
    >>

\* ord(ch) of a printable character of ASCII
Ord(ch) ==
    IF \E k \in DOMAIN AsciiLow : AsciiLow[k] = ch
    THEN 31 + (CHOOSE k \in DOMAIN AsciiLow : AsciiLow[k] = ch)
    ELSE 96 + (CHOOSE k \in DOMAIN AsciiHigh : AsciiHigh[k] = ch)

\* the string literal made of the given printable characters of ASCII
RECURSIVE Str(_)
Str(chars) ==
    IF chars = <<>> THEN <<>> ELSE <<Ord(Head(chars))>> \o Str(Tail(chars))

\* \d of the regular expressions: the decimal digits (Unicode category Nd), in
\* runs of ten from a digit zero to a digit nine
Digits ==
    [latin1 |->
        <<
          <<48, 57>>
        >>,
     beyond |->
        <<
          <<1632, 1641>>, <<1776, 1785>>, <<1984, 1993>>, <<2406, 2415>>,
          <<2534, 2543>>, <<2662, 2671>>, <<2790, 2799>>, <<2918, 2927>>,
          <<3046, 3055>>, <<3174, 3183>>, <<3302, 3311>>, <<3430, 3439>>,
          <<3558, 3567>>, <<3664, 3673>>, <<3792, 3801>>, <<3872, 3881>>,
          <<4160, 4169>>, <<4240, 4249>>, <<6112, 6121>>, <<6160, 6169>>,
          <<6470, 6479>>, <<6608, 6617>>, <<6784, 6793>>, <<6800, 6809>>,
          <<6992, 7001>>, <<7088, 7097>>, <<7232, 7241>>, <<7248, 7257>>,
          <<42528, 42537>>, <<43216, 43225>>, <<43264, 43273>>,
          <<43472, 43481>>, <<43504, 43513>>, <<43600, 43609>>,
          <<44016, 44025>>, <<65296, 65305>>, <<66720, 66729>>,
          <<68912, 68921>>, <<69734, 69743>>, <<69872, 69881>>,
          <<69942, 69951>>, <<70096, 70105>>, <<70384, 70393>>,
          <<70736, 70745>>, <<70864, 70873>>, <<71248, 71257>>,
          <<71360, 71369>>, <<71472, 71481>>, <<71904, 71913>>,
          <<72016, 72025>>, <<72784, 72793>>, <<73040, 73049>>,
          <<73120, 73129>>, <<92768, 92777>>, <<92864, 92873>>,
          <<93008, 93017>>, <<120782, 120791>>, <<120792, 120801>>,
          <<120802, 120811>>, <<120812, 120821>>, <<120822, 120831>>,
          <<123200, 123209>>, <<123632, 123641>>, <<125264, 125273>>,
          <<130032, 130041>>
        >>]

\* str.isalpha: the letters (Unicode categories Lu, Ll, Lt, Lm, Lo)
Letters ==
    [latin1 |->
        <<
          <<65, 90>>, <<97, 122>>, <<170, 170>>, <<181, 181>>, <<186, 186>>,
          <<192, 214>>, <<216, 246>>, <<248, 255>>
        >>,
     beyond |->
        <<
          <<256, 705>>, <<710, 721>>, <<736, 740>>, <<748, 748>>,
          <<750, 750>>, <<880, 884>>, <<886, 887>>, <<890, 893>>,
          <<895, 895>>, <<902, 902>>, <<904, 906>>, <<908, 908>>,
          <<910, 929>>, <<931, 1013>>, <<1015, 1153>>, <<1162, 1327>>,
          <<1329, 1366>>, <<1369, 1369>>, <<1376, 1416>>, <<1488, 1514>>,
          <<1519, 1522>>, <<1568, 1610>>, <<1646, 1647>>, <<1649, 1747>>,
          <<1749, 1749>>, <<1765, 1766>>, <<1774, 1775>>, <<1786, 1788>>,
          <<1791, 1791>>, <<1808, 1808>>, <<1810, 1839>>, <<1869, 1957>>,
          <<1969, 1969>>, <<1994, 2026>>, <<2036, 2037>>, <<2042, 2042>>,
          <<2048, 2069>>, <<2074, 2074>>, <<2084, 2084>>, <<2088, 2088>>,
          <<2112, 2136>>, <<2144, 2154>>, <<2160, 2183>>, <<2185, 2190>>,
          <<2208, 2249>>, <<2308, 2361>>, <<2365, 2365>>, <<2384, 2384>>,
          <<2392, 2401>>, <<2417, 2432>>, <<2437, 2444>>, <<2447, 2448>>,
          <<2451, 2472>>, <<2474, 2480>>, <<2482, 2482>>, <<2486, 2489>>,
          <<2493, 2493>>, <<2510, 2510>>, <<2524, 2525>>, <<2527, 2529>>,
          <<2544, 2545>>, <<2556, 2556>>, <<2565, 2570>>, <<2575, 2576>>,
          <<2579, 2600>>, <<2602, 2608>>, <<2610, 2611>>, <<2613, 2614>>,
          <<2616, 2617>>, <<2649, 2652>>, <<2654, 2654>>, <<2674, 2676>>,
          <<2693, 2701>>, <<2703, 2705>>, <<2707, 2728>>, <<2730, 2736>>,
          <<2738, 2739>>, <<2741, 2745>>, <<2749, 2749>>, <<2768, 2768>>,
          <<2784, 2785>>, <<2809, 2809>>, <<2821, 2828>>, <<2831, 2832>>,
          <<2835, 2856>>, <<2858, 2864>>, <<2866, 2867>>, <<2869, 2873>>,
          <<2877, 2877>>, <<2908, 2909>>, <<2911, 2913>>, <<2929, 2929>>,
          <<2947, 2947>>, <<2949, 2954>>, <<2958, 2960>>, <<2962, 2965>>,
          <<2969, 2970>>, <<2972, 2972>>, <<2974, 2975>>, <<2979, 2980>>,
          <<2984, 2986>>, <<2990, 3001>>, <<3024, 3024>>, <<3077, 3084>>,
          <<3086, 3088>>, <<3090, 3112>>, <<3114, 3129>>, <<3133, 3133>>,
          <<3160, 3162>>, <<3165, 3165>>, <<3168, 3169>>, <<3200, 3200>>,
          <<3205, 3212>>, <<3214, 3216>>, <<3218, 3240>>, <<3242, 3251>>,
          <<3253, 3257>>, <<3261, 3261>>, <<3293, 3294>>, <<3296, 3297>>,
          <<3313, 3314>>, <<3332, 3340>>, <<3342, 3344>>, <<3346, 3386>>,
          <<3389, 3389>>, <<3406, 3406>>, <<3412, 3414>>, <<3423, 3425>>,
          <<3450, 3455>>, <<3461, 3478>>, <<3482, 3505>>, <<3507, 3515>>,
          <<3517, 3517>>, <<3520, 3526>>, <<3585, 3632>>, <<3634, 3635>>,
          <<3648, 3654>>, <<3713, 3714>>, <<3716, 3716>>, <<3718, 3722>>,
          <<3724, 3747>>, <<3749, 3749>>, <<3751, 3760>>, <<3762, 3763>>,
          <<3773, 3773>>, <<3776, 3780>>, <<3782, 3782>>, <<3804, 3807>>,
          <<3840, 3840>>, <<3904, 3911>>, <<3913, 3948>>, <<3976, 3980>>,
          <<4096, 4138>>, <<4159, 4159>>, <<4176, 4181>>, <<4186, 4189>>,
          <<4193, 4193>>, <<4197, 4198>>, <<4206, 4208>>, <<4213, 4225>>,
          <<4238, 4238>>, <<4256, 4293>>, <<4295, 4295>>, <<4301, 4301>>,
          <<4304, 4346>>, <<4348, 4680>>, <<4682, 4685>>, <<4688, 4694>>,
          <<4696, 4696>>, <<4698, 4701>>, <<4704, 4744>>, <<4746, 4749>>,
          <<4752, 4784>>, <<4786, 4789>>, <<4792, 4798>>, <<4800, 4800>>,
          <<4802, 4805>>, <<4808, 4822>>, <<4824, 4880>>, <<4882, 4885>>,
          <<4888, 4954>>, <<4992, 5007>>, <<5024, 5109>>, <<5112, 5117>>,
          <<5121, 5740>>, <<5743, 5759>>, <<5761, 5786>>, <<5792, 5866>>,
          <<5873, 5880>>, <<5888, 5905>>, <<5919, 5937>>, <<5952, 5969>>,
          <<5984, 5996>>, <<5998, 6000>>, <<6016, 6067>>, <<6103, 6103>>,
          <<6108, 6108>>, <<6176, 6264>>, <<6272, 6276>>, <<6279, 6312>>,
          <<6314, 6314>>, <<6320, 6389>>, <<6400, 6430>>, <<6480, 6509>>,
          <<6512, 6516>>, <<6528, 6571>>, <<6576, 6601>>, <<6656, 6678>>,
          <<6688, 6740>>, <<6823, 6823>>, <<6917, 6963>>, <<6981, 6988>>,
          <<7043, 7072>>, <<7086, 7087>>, <<7098, 7141>>, <<7168, 7203>>,
          <<7245, 7247>>, <<7258, 7293>>, <<7296, 7304>>, <<7312, 7354>>,
          <<7357, 7359>>, <<7401, 7404>>, <<7406, 7411>>, <<7413, 7414>>,
          <<7418, 7418>>, <<7424, 7615>>, <<7680, 7957>>, <<7960, 7965>>,
          <<7968, 8005>>, <<8008, 8013>>, <<8016, 8023>>, <<8025, 8025>>,
          <<8027, 8027>>, <<8029, 8029>>, <<8031, 8061>>, <<8064, 8116>>,
          <<8118, 8124>>, <<8126, 8126>>, <<8130, 8132>>, <<8134, 8140>>,
          <<8144, 8147>>, <<8150, 8155>>, <<8160, 8172>>, <<8178, 8180>>,
          <<8182, 8188>>, <<8305, 8305>>, <<8319, 8319>>, <<8336, 8348>>,
          <<8450, 8450>>, <<8455, 8455>>, <<8458, 8467>>, <<8469, 8469>>,
          <<8473, 8477>>, <<8484, 8484>>, <<8486, 8486>>, <<8488, 8488>>,
          <<8490, 8493>>, <<8495, 8505>>, <<8508, 8511>>, <<8517, 8521>>,
          <<8526, 8526>>, <<8579, 8580>>, <<11264, 11492>>, <<11499, 11502>>,
          <<11506, 11507>>, <<11520, 11557>>, <<11559, 11559>>,
          <<11565, 11565>>, <<11568, 11623>>, <<11631, 11631>>,
          <<11648, 11670>>, <<11680, 11686>>, <<11688, 11694>>,
          <<11696, 11702>>, <<11704, 11710>>, <<11712, 11718>>,
          <<11720, 11726>>, <<11728, 11734>>, <<11736, 11742>>,
          <<11823, 11823>>, <<12293, 12294>>, <<12337, 12341>>,
          <<12347, 12348>>, <<12353, 12438>>, <<12445, 12447>>,
          <<12449, 12538>>, <<12540, 12543>>, <<12549, 12591>>,
          <<12593, 12686>>, <<12704, 12735>>, <<12784, 12799>>,
          <<13312, 19903>>, <<19968, 42124>>, <<42192, 42237>>,
          <<42240, 42508>>, <<42512, 42527>>, <<42538, 42539>>,
          <<42560, 42606>>, <<42623, 42653>>, <<42656, 42725>>,
          <<42775, 42783>>, <<42786, 42888>>, <<42891, 42954>>,
          <<42960, 42961>>, <<42963, 42963>>, <<42965, 42969>>,
          <<42994, 43009>>, <<43011, 43013>>, <<43015, 43018>>,
          <<43020, 43042>>, <<43072, 43123>>, <<43138, 43187>>,
          <<43250, 43255>>, <<43259, 43259>>, <<43261, 43262>>,
          <<43274, 43301>>, <<43312, 43334>>, <<43360, 43388>>,
          <<43396, 43442>>, <<43471, 43471>>, <<43488, 43492>>,
          <<43494, 43503>>, <<43514, 43518>>, <<43520, 43560>>,
          <<43584, 43586>>, <<43588, 43595>>, <<43616, 43638>>,
          <<43642, 43642>>, <<43646, 43695>>, <<43697, 43697>>,
          <<43701, 43702>>, <<43705, 43709>>, <<43712, 43712>>,
          <<43714, 43714>>, <<43739, 43741>>, <<43744, 43754>>,
          <<43762, 43764>>, <<43777, 43782>>, <<43785, 43790>>,
          <<43793, 43798>>, <<43808, 43814>>, <<43816, 43822>>,
          <<43824, 43866>>, <<43868, 43881>>, <<43888, 44002>>,
          <<44032, 55203>>, <<55216, 55238>>, <<55243, 55291>>,
          <<63744, 64109>>, <<64112, 64217>>, <<64256, 64262>>,
          <<64275, 64279>>, <<64285, 64285>>, <<64287, 64296>>,
          <<64298, 64310>>, <<64312, 64316>>, <<64318, 64318>>,
          <<64320, 64321>>, <<64323, 64324>>, <<64326, 64433>>,
          <<64467, 64829>>, <<64848, 64911>>, <<64914, 64967>>,
          <<65008, 65019>>, <<65136, 65140>>, <<65142, 65276>>,
          <<65313, 65338>>, <<65345, 65370>>, <<65382, 65470>>,
          <<65474, 65479>>, <<65482, 65487>>, <<65490, 65495>>,
          <<65498, 65500>>, <<65536, 65547>>, <<65549, 65574>>,
          <<65576, 65594>>, <<65596, 65597>>, <<65599, 65613>>,
          <<65616, 65629>>, <<65664, 65786>>, <<66176, 66204>>,
          <<66208, 66256>>, <<66304, 66335>>, <<66349, 66368>>,
          <<66370, 66377>>, <<66384, 66421>>, <<66432, 66461>>,
          <<66464, 66499>>, <<66504, 66511>>, <<66560, 66717>>,
          <<66736, 66771>>, <<66776, 66811>>, <<66816, 66855>>,
          <<66864, 66915>>, <<66928, 66938>>, <<66940, 66954>>,
          <<66956, 66962>>, <<66964, 66965>>, <<66967, 66977>>,
          <<66979, 66993>>, <<66995, 67001>>, <<67003, 67004>>,
          <<67072, 67382>>, <<67392, 67413>>, <<67424, 67431>>,
          <<67456, 67461>>, <<67463, 67504>>, <<67506, 67514>>,
          <<67584, 67589>>, <<67592, 67592>>, <<67594, 67637>>,
          <<67639, 67640>>, <<67644, 67644>>, <<67647, 67669>>,
          <<67680, 67702>>, <<67712, 67742>>, <<67808, 67826>>,
          <<67828, 67829>>, <<67840, 67861>>, <<67872, 67897>>,
          <<67968, 68023>>, <<68030, 68031>>, <<68096, 68096>>,
          <<68112, 68115>>, <<68117, 68119>>, <<68121, 68149>>,
          <<68192, 68220>>, <<68224, 68252>>, <<68288, 68295>>,
          <<68297, 68324>>, <<68352, 68405>>, <<68416, 68437>>,
          <<68448, 68466>>, <<68480, 68497>>, <<68608, 68680>>,
          <<68736, 68786>>, <<68800, 68850>>, <<68864, 68899>>,
          <<69248, 69289>>, <<69296, 69297>>, <<69376, 69404>>,
          <<69415, 69415>>, <<69424, 69445>>, <<69488, 69505>>,
          <<69552, 69572>>, <<69600, 69622>>, <<69635, 69687>>,
          <<69745, 69746>>, <<69749, 69749>>, <<69763, 69807>>,
          <<69840, 69864>>, <<69891, 69926>>, <<69956, 69956>>,
          <<69959, 69959>>, <<69968, 70002>>, <<70006, 70006>>,
          <<70019, 70066>>, <<70081, 70084>>, <<70106, 70106>>,
          <<70108, 70108>>, <<70144, 70161>>, <<70163, 70187>>,
          <<70272, 70278>>, <<70280, 70280>>, <<70282, 70285>>,
          <<70287, 70301>>, <<70303, 70312>>, <<70320, 70366>>,
          <<70405, 70412>>, <<70415, 70416>>, <<70419, 70440>>,
          <<70442, 70448>>, <<70450, 70451>>, <<70453, 70457>>,
          <<70461, 70461>>, <<70480, 70480>>, <<70493, 70497>>,
          <<70656, 70708>>, <<70727, 70730>>, <<70751, 70753>>,
          <<70784, 70831>>, <<70852, 70853>>, <<70855, 70855>>,
          <<71040, 71086>>, <<71128, 71131>>, <<71168, 71215>>,
          <<71236, 71236>>, <<71296, 71338>>, <<71352, 71352>>,
          <<71424, 71450>>, <<71488, 71494>>, <<71680, 71723>>,
          <<71840, 71903>>, <<71935, 71942>>, <<71945, 71945>>,
          <<71948, 71955>>, <<71957, 71958>>, <<71960, 71983>>,
          <<71999, 71999>>, <<72001, 72001>>, <<72096, 72103>>,
          <<72106, 72144>>, <<72161, 72161>>, <<72163, 72163>>,
          <<72192, 72192>>, <<72203, 72242>>, <<72250, 72250>>,
          <<72272, 72272>>, <<72284, 72329>>, <<72349, 72349>>,
          <<72368, 72440>>, <<72704, 72712>>, <<72714, 72750>>,
          <<72768, 72768>>, <<72818, 72847>>, <<72960, 72966>>,
          <<72968, 72969>>, <<72971, 73008>>, <<73030, 73030>>,
          <<73056, 73061>>, <<73063, 73064>>, <<73066, 73097>>,
          <<73112, 73112>>, <<73440, 73458>>, <<73648, 73648>>,
          <<73728, 74649>>, <<74880, 75075>>, <<77712, 77808>>,
          <<77824, 78894>>, <<82944, 83526>>, <<92160, 92728>>,
          <<92736, 92766>>, <<92784, 92862>>, <<92880, 92909>>,
          <<92928, 92975>>, <<92992, 92995>>, <<93027, 93047>>,
          <<93053, 93071>>, <<93760, 93823>>, <<93952, 94026>>,
          <<94032, 94032>>, <<94099, 94111>>, <<94176, 94177>>,
          <<94179, 94179>>, <<94208, 100343>>, <<100352, 101589>>,
          <<101632, 101640>>, <<110576, 110579>>, <<110581, 110587>>,
          <<110589, 110590>>, <<110592, 110882>>, <<110928, 110930>>,
          <<110948, 110951>>, <<110960, 111355>>, <<113664, 113770>>,
          <<113776, 113788>>, <<113792, 113800>>, <<113808, 113817>>,
          <<119808, 119892>>, <<119894, 119964>>, <<119966, 119967>>,
          <<119970, 119970>>, <<119973, 119974>>, <<119977, 119980>>,
          <<119982, 119993>>, <<119995, 119995>>, <<119997, 120003>>,
          <<120005, 120069>>, <<120071, 120074>>, <<120077, 120084>>,
          <<120086, 120092>>, <<120094, 120121>>, <<120123, 120126>>,
          <<120128, 120132>>, <<120134, 120134>>, <<120138, 120144>>,
          <<120146, 120485>>, <<120488, 120512>>, <<120514, 120538>>,
          <<120540, 120570>>, <<120572, 120596>>, <<120598, 120628>>,
          <<120630, 120654>>, <<120656, 120686>>, <<120688, 120712>>,
          <<120714, 120744>>, <<120746, 120770>>, <<120772, 120779>>,
          <<122624, 122654>>, <<123136, 123180>>, <<123191, 123197>>,
          <<123214, 123214>>, <<123536, 123565>>, <<123584, 123627>>,
          <<124896, 124902>>, <<124904, 124907>>, <<124909, 124910>>,
          <<124912, 124926>>, <<124928, 125124>>, <<125184, 125251>>,
          <<125259, 125259>>, <<126464, 126467>>, <<126469, 126495>>,
          <<126497, 126498>>, <<126500, 126500>>, <<126503, 126503>>,
          <<126505, 126514>>, <<126516, 126519>>, <<126521, 126521>>,
          <<126523, 126523>>, <<126530, 126530>>, <<126535, 126535>>,
          <<126537, 126537>>, <<126539, 126539>>, <<126541, 126543>>,
          <<126545, 126546>>, <<126548, 126548>>, <<126551, 126551>>,
          <<126553, 126553>>, <<126555, 126555>>, <<126557, 126557>>,
          <<126559, 126559>>, <<126561, 126562>>, <<126564, 126564>>,
          <<126567, 126570>>, <<126572, 126578>>, <<126580, 126583>>,
          <<126585, 126588>>, <<126590, 126590>>, <<126592, 126601>>,
          <<126603, 126619>>, <<126625, 126627>>, <<126629, 126633>>,
          <<126635, 126651>>, <<131072, 173791>>, <<173824, 177976>>,
          <<177984, 178205>>, <<178208, 183969>>, <<183984, 191456>>,
          <<194560, 195101>>, <<196608, 201546>>
        >>]

\* str.isalnum without str.isalpha: the decimal digits and the other numeric
\* characters (superscripts, fractions, letter numbers, ...)
Numerics ==
    [latin1 |->
        <<
          <<48, 57>>, <<178, 179>>, <<185, 185>>, <<188, 190>>
        >>,
     beyond |->
        <<
          <<1632, 1641>>, <<1776, 1785>>, <<1984, 1993>>, <<2406, 2415>>,
          <<2534, 2543>>, <<2548, 2553>>, <<2662, 2671>>, <<2790, 2799>>,
          <<2918, 2927>>, <<2930, 2935>>, <<3046, 3058>>, <<3174, 3183>>,
          <<3192, 3198>>, <<3302, 3311>>, <<3416, 3422>>, <<3430, 3448>>,
          <<3558, 3567>>, <<3664, 3673>>, <<3792, 3801>>, <<3872, 3891>>,
          <<4160, 4169>>, <<4240, 4249>>, <<4969, 4988>>, <<5870, 5872>>,
          <<6112, 6121>>, <<6128, 6137>>, <<6160, 6169>>, <<6470, 6479>>,
          <<6608, 6618>>, <<6784, 6793>>, <<6800, 6809>>, <<6992, 7001>>,
          <<7088, 7097>>, <<7232, 7241>>, <<7248, 7257>>, <<8304, 8304>>,
          <<8308, 8313>>, <<8320, 8329>>, <<8528, 8578>>, <<8581, 8585>>,
          <<9312, 9371>>, <<9450, 9471>>, <<10102, 10131>>, <<11517, 11517>>,
          <<12295, 12295>>, <<12321, 12329>>, <<12344, 12346>>,
          <<12690, 12693>>, <<12832, 12841>>, <<12872, 12879>>,
          <<12881, 12895>>, <<12928, 12937>>, <<12977, 12991>>,
          <<42528, 42537>>, <<42726, 42735>>, <<43056, 43061>>,
          <<43216, 43225>>, <<43264, 43273>>, <<43472, 43481>>,
          <<43504, 43513>>, <<43600, 43609>>, <<44016, 44025>>,
          <<65296, 65305>>, <<65799, 65843>>, <<65856, 65912>>,
          <<65930, 65931>>, <<66273, 66299>>, <<66336, 66339>>,
          <<66369, 66369>>, <<66378, 66378>>, <<66513, 66517>>,
          <<66720, 66729>>, <<67672, 67679>>, <<67705, 67711>>,
          <<67751, 67759>>, <<67835, 67839>>, <<67862, 67867>>,
          <<68028, 68029>>, <<68032, 68047>>, <<68050, 68095>>,
          <<68160, 68168>>, <<68221, 68222>>, <<68253, 68255>>,
          <<68331, 68335>>, <<68440, 68447>>, <<68472, 68479>>,
          <<68521, 68527>>, <<68858, 68863>>, <<68912, 68921>>,
          <<69216, 69246>>, <<69405, 69414>>, <<69457, 69460>>,
          <<69573, 69579>>, <<69714, 69743>>, <<69872, 69881>>,
          <<69942, 69951>>, <<70096, 70105>>, <<70113, 70132>>,
          <<70384, 70393>>, <<70736, 70745>>, <<70864, 70873>>,
          <<71248, 71257>>, <<71360, 71369>>, <<71472, 71483>>,
          <<71904, 71922>>, <<72016, 72025>>, <<72784, 72812>>,
          <<73040, 73049>>, <<73120, 73129>>, <<73664, 73684>>,
          <<74752, 74862>>, <<92768, 92777>>, <<92864, 92873>>,
          <<93008, 93017>>, <<93019, 93025>>, <<93824, 93846>>,
          <<119520, 119539>>, <<119648, 119672>>, <<120782, 120831>>,
          <<123200, 123209>>, <<123632, 123641>>, <<125127, 125135>>,
          <<125264, 125273>>, <<126065, 126123>>, <<126125, 126127>>,
          <<126129, 126132>>, <<126209, 126253>>, <<126255, 126269>>,
          <<127232, 127244>>, <<130032, 130041>>
        >>]

\* \s of the regular expressions, and what str.strip() removes: str.isspace
Whitespace ==
    [latin1 |->
        <<
          <<9, 13>>, <<28, 32>>, <<133, 133>>, <<160, 160>>
        >>,
     beyond |->
        <<
          <<5760, 5760>>, <<8192, 8202>>, <<8232, 8233>>, <<8239, 8239>>,
          <<8287, 8287>>, <<12288, 12288>>
        >>]

\* the whitespace int() skips around a number: Whitespace without U+001C ..
\* U+001F
IntSpace ==
    [latin1 |->
        <<
          <<9, 13>>, <<32, 32>>, <<133, 133>>, <<160, 160>>
        >>,
     beyond |->
        <<
          <<5760, 5760>>, <<8192, 8202>>, <<8232, 8233>>, <<8239, 8239>>,
          <<8287, 8287>>, <<12288, 12288>>
        >>]

\* \w of the regular expressions: letters, numerics and the underscore
WordChars ==
    [latin1 |-> Letters.latin1 \o Numerics.latin1 \o <<<<95, 95>>>>,
     beyond |-> Letters.beyond \o Numerics.beyond]

\* the characters str.lower() changes to one other character, in runs
\* <<first, last, step, offset>>: every step-th character from first to last
\* becomes the character offset code points further
LowerRuns ==
    <<
      <<65, 90, 1, 32>>, <<192, 214, 1, 32>>, <<216, 222, 1, 32>>,
      <<256, 302, 2, 1>>, <<306, 310, 2, 1>>, <<313, 327, 2, 1>>,
      <<330, 374, 2, 1>>, <<376, 376, 1, -121>>, <<377, 381, 2, 1>>,
      <<385, 385, 1, 210>>, <<386, 388, 2, 1>>, <<390, 390, 1, 206>>,
      <<391, 391, 1, 1>>, <<393, 394, 1, 205>>, <<395, 395, 1, 1>>,
      <<398, 398, 1, 79>>, <<399, 399, 1, 202>>, <<400, 400, 1, 203>>,
      <<401, 401, 1, 1>>, <<403, 403, 1, 205>>, <<404, 404, 1, 207>>,
      <<406, 406, 1, 211>>, <<407, 407, 1, 209>>, <<408, 408, 1, 1>>,
      <<412, 412, 1, 211>>, <<413, 413, 1, 213>>, <<415, 415, 1, 214>>,
      <<416, 420, 2, 1>>, <<422, 422, 1, 218>>, <<423, 423, 1, 1>>,
      <<425, 425, 1, 218>>, <<428, 428, 1, 1>>, <<430, 430, 1, 218>>,
      <<431, 431, 1, 1>>, <<433, 434, 1, 217>>, <<435, 437, 2, 1>>,
      <<439, 439, 1, 219>>, <<440, 440, 1, 1>>, <<444, 444, 1, 1>>,
      <<452, 452, 1, 2>>, <<453, 453, 1, 1>>, <<455, 455, 1, 2>>,
      <<456, 456, 1, 1>>, <<458, 458, 1, 2>>, <<459, 475, 2, 1>>,
      <<478, 494, 2, 1>>, <<497, 497, 1, 2>>, <<498, 500, 2, 1>>,
      <<502, 502, 1, -97>>, <<503, 503, 1, -56>>, <<504, 542, 2, 1>>,
      <<544, 544, 1, -130>>, <<546, 562, 2, 1>>, <<570, 570, 1, 10795>>,
      <<571, 571, 1, 1>>, <<573, 573, 1, -163>>, <<574, 574, 1, 10792>>,
      <<577, 577, 1, 1>>, <<579, 579, 1, -195>>, <<580, 580, 1, 69>>,
      <<581, 581, 1, 71>>, <<582, 590, 2, 1>>, <<880, 882, 2, 1>>,
      <<886, 886, 1, 1>>, <<895, 895, 1, 116>>, <<902, 902, 1, 38>>,
      <<904, 906, 1, 37>>, <<908, 908, 1, 64>>, <<910, 911, 1, 63>>,
      <<913, 929, 1, 32>>, <<931, 939, 1, 32>>, <<975, 975, 1, 8>>,
      <<984, 1006, 2, 1>>, <<1012, 1012, 1, -60>>, <<1015, 1015, 1, 1>>,
      <<1017, 1017, 1, -7>>, <<1018, 1018, 1, 1>>, <<1021, 1023, 1, -130>>,
      <<1024, 1039, 1, 80>>, <<1040, 1071, 1, 32>>, <<1120, 1152, 2, 1>>,
      <<1162, 1214, 2, 1>>, <<1216, 1216, 1, 15>>, <<1217, 1229, 2, 1>>,
      <<1232, 1326, 2, 1>>, <<1329, 1366, 1, 48>>, <<4256, 4293, 1, 7264>>,
      <<4295, 4295, 1, 7264>>, <<4301, 4301, 1, 7264>>,
      <<5024, 5103, 1, 38864>>, <<5104, 5109, 1, 8>>,
      <<7312, 7354, 1, -3008>>, <<7357, 7359, 1, -3008>>,
      <<7680, 7828, 2, 1>>, <<7838, 7838, 1, -7615>>, <<7840, 7934, 2, 1>>,
      <<7944, 7951, 1, -8>>, <<7960, 7965, 1, -8>>, <<7976, 7983, 1, -8>>,
      <<7992, 7999, 1, -8>>, <<8008, 8013, 1, -8>>, <<8025, 8031, 2, -8>>,
      <<8040, 8047, 1, -8>>, <<8072, 8079, 1, -8>>, <<8088, 8095, 1, -8>>,
      <<8104, 8111, 1, -8>>, <<8120, 8121, 1, -8>>, <<8122, 8123, 1, -74>>,
      <<8124, 8124, 1, -9>>, <<8136, 8139, 1, -86>>, <<8140, 8140, 1, -9>>,
      <<8152, 8153, 1, -8>>, <<8154, 8155, 1, -100>>, <<8168, 8169, 1, -8>>,
      <<8170, 8171, 1, -112>>, <<8172, 8172, 1, -7>>,
      <<8184, 8185, 1, -128>>, <<8186, 8187, 1, -126>>,
      <<8188, 8188, 1, -9>>, <<8486, 8486, 1, -7517>>,
      <<8490, 8490, 1, -8383>>, <<8491, 8491, 1, -8262>>,
      <<8498, 8498, 1, 28>>, <<8544, 8559, 1, 16>>, <<8579, 8579, 1, 1>>,
      <<9398, 9423, 1, 26>>, <<11264, 11311, 1, 48>>, <<11360, 11360, 1, 1>>,
      <<11362, 11362, 1, -10743>>, <<11363, 11363, 1, -3814>>,
      <<11364, 11364, 1, -10727>>, <<11367, 11371, 2, 1>>,
      <<11373, 11373, 1, -10780>>, <<11374, 11374, 1, -10749>>,
      <<11375, 11375, 1, -10783>>, <<11376, 11376, 1, -10782>>,
      <<11378, 11378, 1, 1>>, <<11381, 11381, 1, 1>>,
      <<11390, 11391, 1, -10815>>, <<11392, 11490, 2, 1>>,
      <<11499, 11501, 2, 1>>, <<11506, 11506, 1, 1>>, <<42560, 42604, 2, 1>>,
      <<42624, 42650, 2, 1>>, <<42786, 42798, 2, 1>>, <<42802, 42862, 2, 1>>,
      <<42873, 42875, 2, 1>>, <<42877, 42877, 1, -35332>>,
      <<42878, 42886, 2, 1>>, <<42891, 42891, 1, 1>>,
      <<42893, 42893, 1, -42280>>, <<42896, 42898, 2, 1>>,
      <<42902, 42920, 2, 1>>, <<42922, 42922, 1, -42308>>,
      <<42923, 42923, 1, -42319>>, <<42924, 42924, 1, -42315>>,
      <<42925, 42925, 1, -42305>>, <<42926, 42926, 1, -42308>>,
      <<42928, 42928, 1, -42258>>, <<42929, 42929, 1, -42282>>,
      <<42930, 42930, 1, -42261>>, <<42931, 42931, 1, 928>>,
      <<42932, 42946, 2, 1>>, <<42948, 42948, 1, -48>>,
      <<42949, 42949, 1, -42307>>, <<42950, 42950, 1, -35384>>,
      <<42951, 42953, 2, 1>>, <<42960, 42960, 1, 1>>, <<42966, 42968, 2, 1>>,
      <<42997, 42997, 1, 1>>, <<65313, 65338, 1, 32>>,
      <<66560, 66599, 1, 40>>, <<66736, 66771, 1, 40>>,
      <<66928, 66964, 2, 39>>, <<66929, 66937, 2, 39>>,
      <<66941, 66953, 2, 39>>, <<66957, 66961, 2, 39>>,
      <<66965, 66965, 1, 39>>, <<68736, 68786, 1, 64>>,
      <<71840, 71871, 1, 32>>, <<93760, 93791, 1, 32>>,
      <<125184, 125217, 1, 34>>
    >>

\* the case-ignorable characters, which the final-sigma rule of str.lower()
\* skips
CaseIgnorable ==
    [latin1 |->
        <<
          <<39, 39>>, <<46, 46>>, <<58, 58>>, <<94, 94>>, <<96, 96>>,
          <<168, 168>>, <<173, 173>>, <<175, 175>>, <<180, 180>>,
          <<183, 184>>
        >>,
     beyond |->
        <<
          <<688, 879>>, <<884, 885>>, <<890, 890>>, <<900, 901>>,
          <<903, 903>>, <<1155, 1161>>, <<1369, 1369>>, <<1375, 1375>>,
          <<1425, 1469>>, <<1471, 1471>>, <<1473, 1474>>, <<1476, 1477>>,
          <<1479, 1479>>, <<1524, 1524>>, <<1536, 1541>>, <<1552, 1562>>,
          <<1564, 1564>>, <<1600, 1600>>, <<1611, 1631>>, <<1648, 1648>>,
          <<1750, 1757>>, <<1759, 1768>>, <<1770, 1773>>, <<1807, 1807>>,
          <<1809, 1809>>, <<1840, 1866>>, <<1958, 1968>>, <<2027, 2037>>,
          <<2042, 2042>>, <<2045, 2045>>, <<2070, 2093>>, <<2137, 2139>>,
          <<2184, 2184>>, <<2192, 2193>>, <<2200, 2207>>, <<2249, 2306>>,
          <<2362, 2362>>, <<2364, 2364>>, <<2369, 2376>>, <<2381, 2381>>,
          <<2385, 2391>>, <<2402, 2403>>, <<2417, 2417>>, <<2433, 2433>>,
          <<2492, 2492>>, <<2497, 2500>>, <<2509, 2509>>, <<2530, 2531>>,
          <<2558, 2558>>, <<2561, 2562>>, <<2620, 2620>>, <<2625, 2626>>,
          <<2631, 2632>>, <<2635, 2637>>, <<2641, 2641>>, <<2672, 2673>>,
          <<2677, 2677>>, <<2689, 2690>>, <<2748, 2748>>, <<2753, 2757>>,
          <<2759, 2760>>, <<2765, 2765>>, <<2786, 2787>>, <<2810, 2815>>,
          <<2817, 2817>>, <<2876, 2876>>, <<2879, 2879>>, <<2881, 2884>>,
          <<2893, 2893>>, <<2901, 2902>>, <<2914, 2915>>, <<2946, 2946>>,
          <<3008, 3008>>, <<3021, 3021>>, <<3072, 3072>>, <<3076, 3076>>,
          <<3132, 3132>>, <<3134, 3136>>, <<3142, 3144>>, <<3146, 3149>>,
          <<3157, 3158>>, <<3170, 3171>>, <<3201, 3201>>, <<3260, 3260>>,
          <<3263, 3263>>, <<3270, 3270>>, <<3276, 3277>>, <<3298, 3299>>,
          <<3328, 3329>>, <<3387, 3388>>, <<3393, 3396>>, <<3405, 3405>>,
          <<3426, 3427>>, <<3457, 3457>>, <<3530, 3530>>, <<3538, 3540>>,
          <<3542, 3542>>, <<3633, 3633>>, <<3636, 3642>>, <<3654, 3662>>,
          <<3761, 3761>>, <<3764, 3772>>, <<3782, 3782>>, <<3784, 3789>>,
          <<3864, 3865>>, <<3893, 3893>>, <<3895, 3895>>, <<3897, 3897>>,
          <<3953, 3966>>, <<3968, 3972>>, <<3974, 3975>>, <<3981, 3991>>,
          <<3993, 4028>>, <<4038, 4038>>, <<4141, 4144>>, <<4146, 4151>>,
          <<4153, 4154>>, <<4157, 4158>>, <<4184, 4185>>, <<4190, 4192>>,
          <<4209, 4212>>, <<4226, 4226>>, <<4229, 4230>>, <<4237, 4237>>,
          <<4253, 4253>>, <<4348, 4348>>, <<4957, 4959>>, <<5906, 5908>>,
          <<5938, 5939>>, <<5970, 5971>>, <<6002, 6003>>, <<6068, 6069>>,
          <<6071, 6077>>, <<6086, 6086>>, <<6089, 6099>>, <<6103, 6103>>,
          <<6109, 6109>>, <<6155, 6159>>, <<6211, 6211>>, <<6277, 6278>>,
          <<6313, 6313>>, <<6432, 6434>>, <<6439, 6440>>, <<6450, 6450>>,
          <<6457, 6459>>, <<6679, 6680>>, <<6683, 6683>>, <<6742, 6742>>,
          <<6744, 6750>>, <<6752, 6752>>, <<6754, 6754>>, <<6757, 6764>>,
          <<6771, 6780>>, <<6783, 6783>>, <<6823, 6823>>, <<6832, 6862>>,
          <<6912, 6915>>, <<6964, 6964>>, <<6966, 6970>>, <<6972, 6972>>,
          <<6978, 6978>>, <<7019, 7027>>, <<7040, 7041>>, <<7074, 7077>>,
          <<7080, 7081>>, <<7083, 7085>>, <<7142, 7142>>, <<7144, 7145>>,
          <<7149, 7149>>, <<7151, 7153>>, <<7212, 7219>>, <<7222, 7223>>,
          <<7288, 7293>>, <<7376, 7378>>, <<7380, 7392>>, <<7394, 7400>>,
          <<7405, 7405>>, <<7412, 7412>>, <<7416, 7417>>, <<7468, 7530>>,
          <<7544, 7544>>, <<7579, 7679>>, <<8125, 8125>>, <<8127, 8129>>,
          <<8141, 8143>>, <<8157, 8159>>, <<8173, 8175>>, <<8189, 8190>>,
          <<8203, 8207>>, <<8216, 8217>>, <<8228, 8228>>, <<8231, 8231>>,
          <<8234, 8238>>, <<8288, 8292>>, <<8294, 8303>>, <<8305, 8305>>,
          <<8319, 8319>>, <<8336, 8348>>, <<8400, 8432>>, <<11388, 11389>>,
          <<11503, 11505>>, <<11631, 11631>>, <<11647, 11647>>,
          <<11744, 11775>>, <<11823, 11823>>, <<12293, 12293>>,
          <<12330, 12333>>, <<12337, 12341>>, <<12347, 12347>>,
          <<12441, 12446>>, <<12540, 12542>>, <<40981, 40981>>,
          <<42232, 42237>>, <<42508, 42508>>, <<42607, 42610>>,
          <<42612, 42621>>, <<42623, 42623>>, <<42652, 42655>>,
          <<42736, 42737>>, <<42752, 42785>>, <<42864, 42864>>,
          <<42888, 42890>>, <<42994, 42996>>, <<43000, 43001>>,
          <<43010, 43010>>, <<43014, 43014>>, <<43019, 43019>>,
          <<43045, 43046>>, <<43052, 43052>>, <<43204, 43205>>,
          <<43232, 43249>>, <<43263, 43263>>, <<43302, 43309>>,
          <<43335, 43345>>, <<43392, 43394>>, <<43443, 43443>>,
          <<43446, 43449>>, <<43452, 43453>>, <<43471, 43471>>,
          <<43493, 43494>>, <<43561, 43566>>, <<43569, 43570>>,
          <<43573, 43574>>, <<43587, 43587>>, <<43596, 43596>>,
          <<43632, 43632>>, <<43644, 43644>>, <<43696, 43696>>,
          <<43698, 43700>>, <<43703, 43704>>, <<43710, 43711>>,
          <<43713, 43713>>, <<43741, 43741>>, <<43756, 43757>>,
          <<43763, 43764>>, <<43766, 43766>>, <<43867, 43871>>,
          <<43881, 43883>>, <<44005, 44005>>, <<44008, 44008>>,
          <<44013, 44013>>, <<64286, 64286>>, <<64434, 64450>>,
          <<65024, 65039>>, <<65043, 65043>>, <<65056, 65071>>,
          <<65106, 65106>>, <<65109, 65109>>, <<65279, 65279>>,
          <<65287, 65287>>, <<65294, 65294>>, <<65306, 65306>>,
          <<65342, 65342>>, <<65344, 65344>>, <<65392, 65392>>,
          <<65438, 65439>>, <<65507, 65507>>, <<65529, 65531>>,
          <<66045, 66045>>, <<66272, 66272>>, <<66422, 66426>>,
          <<67456, 67461>>, <<67463, 67504>>, <<67506, 67514>>,
          <<68097, 68099>>, <<68101, 68102>>, <<68108, 68111>>,
          <<68152, 68154>>, <<68159, 68159>>, <<68325, 68326>>,
          <<68900, 68903>>, <<69291, 69292>>, <<69446, 69456>>,
          <<69506, 69509>>, <<69633, 69633>>, <<69688, 69702>>,
          <<69744, 69744>>, <<69747, 69748>>, <<69759, 69761>>,
          <<69811, 69814>>, <<69817, 69818>>, <<69821, 69821>>,
          <<69826, 69826>>, <<69837, 69837>>, <<69888, 69890>>,
          <<69927, 69931>>, <<69933, 69940>>, <<70003, 70003>>,
          <<70016, 70017>>, <<70070, 70078>>, <<70089, 70092>>,
          <<70095, 70095>>, <<70191, 70193>>, <<70196, 70196>>,
          <<70198, 70199>>, <<70206, 70206>>, <<70367, 70367>>,
          <<70371, 70378>>, <<70400, 70401>>, <<70459, 70460>>,
          <<70464, 70464>>, <<70502, 70508>>, <<70512, 70516>>,
          <<70712, 70719>>, <<70722, 70724>>, <<70726, 70726>>,
          <<70750, 70750>>, <<70835, 70840>>, <<70842, 70842>>,
          <<70847, 70848>>, <<70850, 70851>>, <<71090, 71093>>,
          <<71100, 71101>>, <<71103, 71104>>, <<71132, 71133>>,
          <<71219, 71226>>, <<71229, 71229>>, <<71231, 71232>>,
          <<71339, 71339>>, <<71341, 71341>>, <<71344, 71349>>,
          <<71351, 71351>>, <<71453, 71455>>, <<71458, 71461>>,
          <<71463, 71467>>, <<71727, 71735>>, <<71737, 71738>>,
          <<71995, 71996>>, <<71998, 71998>>, <<72003, 72003>>,
          <<72148, 72151>>, <<72154, 72155>>, <<72160, 72160>>,
          <<72193, 72202>>, <<72243, 72248>>, <<72251, 72254>>,
          <<72263, 72263>>, <<72273, 72278>>, <<72281, 72283>>,
          <<72330, 72342>>, <<72344, 72345>>, <<72752, 72758>>,
          <<72760, 72765>>, <<72767, 72767>>, <<72850, 72871>>,
          <<72874, 72880>>, <<72882, 72883>>, <<72885, 72886>>,
          <<73009, 73014>>, <<73018, 73018>>, <<73020, 73021>>,
          <<73023, 73029>>, <<73031, 73031>>, <<73104, 73105>>,
          <<73109, 73109>>, <<73111, 73111>>, <<73459, 73460>>,
          <<78896, 78904>>, <<92912, 92916>>, <<92976, 92982>>,
          <<92992, 92995>>, <<94031, 94031>>, <<94095, 94111>>,
          <<94176, 94177>>, <<94179, 94180>>, <<110576, 110579>>,
          <<110581, 110587>>, <<110589, 110590>>, <<113821, 113822>>,
          <<113824, 113827>>, <<118528, 118573>>, <<118576, 118598>>,
          <<119143, 119145>>, <<119155, 119170>>, <<119173, 119179>>,
          <<119210, 119213>>, <<119362, 119364>>, <<121344, 121398>>,
          <<121403, 121452>>, <<121461, 121461>>, <<121476, 121476>>,
          <<121499, 121503>>, <<121505, 121519>>, <<122880, 122886>>,
          <<122888, 122904>>, <<122907, 122913>>, <<122915, 122916>>,
          <<122918, 122922>>, <<123184, 123197>>, <<123566, 123566>>,
          <<123628, 123631>>, <<125136, 125142>>, <<125252, 125259>>,
          <<127995, 127999>>, <<917505, 917505>>, <<917536, 917631>>,
          <<917760, 917999>>
        >>]

\* the cased characters that are not case-ignorable
Cased ==
    [latin1 |->
        <<
          <<65, 90>>, <<97, 122>>, <<170, 170>>, <<181, 181>>, <<186, 186>>,
          <<192, 214>>, <<216, 246>>, <<248, 255>>
        >>,
     beyond |->
        <<
          <<256, 442>>, <<444, 447>>, <<452, 659>>, <<661, 687>>,
          <<880, 883>>, <<886, 887>>, <<891, 893>>, <<895, 895>>,
          <<902, 902>>, <<904, 906>>, <<908, 908>>, <<910, 929>>,
          <<931, 1013>>, <<1015, 1153>>, <<1162, 1327>>, <<1329, 1366>>,
          <<1376, 1416>>, <<4256, 4293>>, <<4295, 4295>>, <<4301, 4301>>,
          <<4304, 4346>>, <<4349, 4351>>, <<5024, 5109>>, <<5112, 5117>>,
          <<7296, 7304>>, <<7312, 7354>>, <<7357, 7359>>, <<7424, 7467>>,
          <<7531, 7543>>, <<7545, 7578>>, <<7680, 7957>>, <<7960, 7965>>,
          <<7968, 8005>>, <<8008, 8013>>, <<8016, 8023>>, <<8025, 8025>>,
          <<8027, 8027>>, <<8029, 8029>>, <<8031, 8061>>, <<8064, 8116>>,
          <<8118, 8124>>, <<8126, 8126>>, <<8130, 8132>>, <<8134, 8140>>,
          <<8144, 8147>>, <<8150, 8155>>, <<8160, 8172>>, <<8178, 8180>>,
          <<8182, 8188>>, <<8450, 8450>>, <<8455, 8455>>, <<8458, 8467>>,
          <<8469, 8469>>, <<8473, 8477>>, <<8484, 8484>>, <<8486, 8486>>,
          <<8488, 8488>>, <<8490, 8493>>, <<8495, 8500>>, <<8505, 8505>>,
          <<8508, 8511>>, <<8517, 8521>>, <<8526, 8526>>, <<8544, 8575>>,
          <<8579, 8580>>, <<9398, 9449>>, <<11264, 11387>>, <<11390, 11492>>,
          <<11499, 11502>>, <<11506, 11507>>, <<11520, 11557>>,
          <<11559, 11559>>, <<11565, 11565>>, <<42560, 42605>>,
          <<42624, 42651>>, <<42786, 42863>>, <<42865, 42887>>,
          <<42891, 42894>>, <<42896, 42954>>, <<42960, 42961>>,
          <<42963, 42963>>, <<42965, 42969>>, <<42997, 42998>>,
          <<43002, 43002>>, <<43824, 43866>>, <<43872, 43880>>,
          <<43888, 43967>>, <<64256, 64262>>, <<64275, 64279>>,
          <<65313, 65338>>, <<65345, 65370>>, <<66560, 66639>>,
          <<66736, 66771>>, <<66776, 66811>>, <<66928, 66938>>,
          <<66940, 66954>>, <<66956, 66962>>, <<66964, 66965>>,
          <<66967, 66977>>, <<66979, 66993>>, <<66995, 67001>>,
          <<67003, 67004>>, <<68736, 68786>>, <<68800, 68850>>,
          <<71840, 71903>>, <<93760, 93823>>, <<119808, 119892>>,
          <<119894, 119964>>, <<119966, 119967>>, <<119970, 119970>>,
          <<119973, 119974>>, <<119977, 119980>>, <<119982, 119993>>,
          <<119995, 119995>>, <<119997, 120003>>, <<120005, 120069>>,
          <<120071, 120074>>, <<120077, 120084>>, <<120086, 120092>>,
          <<120094, 120121>>, <<120123, 120126>>, <<120128, 120132>>,
          <<120134, 120134>>, <<120138, 120144>>, <<120146, 120485>>,
          <<120488, 120512>>, <<120514, 120538>>, <<120540, 120570>>,
          <<120572, 120596>>, <<120598, 120628>>, <<120630, 120654>>,
          <<120656, 120686>>, <<120688, 120712>>, <<120714, 120744>>,
          <<120746, 120770>>, <<120772, 120779>>, <<122624, 122633>>,
          <<122635, 122654>>, <<125184, 125251>>, <<127280, 127305>>,
          <<127312, 127337>>, <<127344, 127369>>
        >>]

InRun(c, run) == run[1] <= c /\ c <= run[2] /\ (c - run[1]) % run[3] = 0

\* c.lower() of a character that lowers to one character
LowerChar(c) ==
    IF \E i \in DOMAIN LowerRuns : InRun(c, LowerRuns[i])
    THEN c + LowerRuns[CHOOSE i \in DOMAIN LowerRuns : InRun(c, LowerRuns[i])][4]
    ELSE c

\* the capital sigma s[i] ends a word: a cased character comes before it and
\* none after it, case-ignorable characters skipped on both sides
FinalSigma(s, i) ==
    /\ \E j \in 1..(i - 1) :
          /\ In(s[j], Cased)
          /\ \A k \in (j + 1)..(i - 1) : In(s[k], CaseIgnorable)
    /\ ~\E j \in (i + 1)..Len(s) :
          /\ In(s[j], Cased)
          /\ \A k \in (i + 1)..(j - 1) : In(s[k], CaseIgnorable)

\* what s.lower() makes of s[i]: U+03A3 is U+03C2 at the end of a word and
\* U+03C3 elsewhere, U+0130 is the two characters U+0069 U+0307
LowerAt(s, i) ==
    IF s[i] = 931 THEN <<IF FinalSigma(s, i) THEN 962 ELSE 963>>
    ELSE IF s[i] = 304 THEN <<105, 775>>
    ELSE <<LowerChar(s[i])>>

RECURSIVE LowerFrom(_, _)
LowerFrom(s, i) ==
    IF i > Len(s) THEN <<>> ELSE LowerAt(s, i) \o LowerFrom(s, i + 1)

\* s.lower()
lower(s) == LowerFrom(s, 1)

\* the length of the longest prefix of s made of characters of the class
PrefixLen(s, class) ==
    IF AllIn(s, class) THEN Len(s)
    ELSE (CHOOSE i \in DOMAIN s :
              ~In(s[i], class) /\ \A j \in 1..(i - 1) : In(s[j], class)) - 1

\* the length of the longest suffix of s made of characters of the class
SuffixLen(s, class) ==
    IF AllIn(s, class) THEN Len(s)
    ELSE (CHOOSE i \in DOMAIN s :
              /\ ~In(s[Len(s) + 1 - i], class)
              /\ \A j \in 1..(i - 1) : In(s[Len(s) + 1 - j], class)) - 1

\* s.strip()
strip(s) ==
    IF AllIn(s, Whitespace) THEN <<>>
    ELSE SubSeq(s, PrefixLen(s, Whitespace) + 1, Len(s) - SuffixLen(s, Whitespace))

\* s.split(sep): the pieces of s between the occurrences of sep
RECURSIVE split(_, _)
split(s, sep) ==
    IF \E i \in DOMAIN s : s[i] = sep
    THEN LET i == CHOOSE k \in DOMAIN s :
                      s[k] = sep /\ \A j \in 1..(k - 1) : s[j] # sep
         IN  <<SubSeq(s, 1, i - 1)>> \o split(SubSeq(s, i + 1, Len(s)), sep)
    ELSE <<s>>

ValueError(message, arg) ==
    [raised |-> "ValueError", message |-> message, arg |-> arg]

\* the digit zero of the run of the decimal digit c
DigitZero(c, runs) ==
    runs[CHOOSE i \in DOMAIN runs : runs[i][1] <= c /\ c <= runs[i][2]][1]

\* int(c) of one decimal digit: its place in its run
DigitValue(c) ==
    c - (IF c <= 255 THEN DigitZero(c, Digits.latin1) ELSE DigitZero(c, Digits.beyond))

\* the digits of s from the first that is not a zero
Significant(s) ==
    IF \A i \in DOMAIN s : DigitValue(s[i]) = 0 THEN <<>>
    ELSE SubSeq(s, CHOOSE i \in DOMAIN s :
                       /\ DigitValue(s[i]) # 0
                       /\ \A j \in 1..(i - 1) : DigitValue(s[j]) = 0,
                Len(s))

\* the value of a string of decimal digits
RECURSIVE DigitsValue(_)
DigitsValue(s) ==
    IF s = <<>> THEN 0
    ELSE 10 * DigitsValue(SubSeq(s, 1, Len(s) - 1)) + DigitValue(s[Len(s)])

IsDigit(c) == In(c, Digits)

\* the digits and the underscore, the characters of a number for int()
DigitsAndUnderscore ==
    [latin1 |-> Digits.latin1 \o <<<<95, 95>>>>, beyond |-> Digits.beyond]

\* str(n) of an integer n >= 0
RECURSIVE DigitString(_)
DigitString(n) ==
    LET d == Ord("0") + (n % 10)
    IN  IF n < 10 THEN <<d>> ELSE DigitString(n \div 10) \o <<d>>

\* sys.get_int_max_str_digits(): the most digits int() converts
MaxStrDigits == 4300

\* int(s) once the sign is read: run is the digits and underscores that follow
\* it and rest what follows those.  The underscores stand singly between
\* digits, the digits are at most MaxStrDigits, leading zeros counted, and rest
\* is whitespace.  The error of an invalid literal names s and the error of too
\* many digits their number.
IntNumber(s, sign, run, rest) ==
    IF \/ run = <<>>
       \/ run[1] = 95
       \/ run[Len(run)] = 95
       \/ \E i \in 1..(Len(run) - 1) : run[i] = 95 /\ run[i + 1] = 95
    THEN ValueError("invalid literal for int() with base 10", s)
    ELSE IF Len(SelectSeq(run, IsDigit)) > MaxStrDigits
    THEN ValueError("Exceeds the limit (4300 digits) for integer string conversion",
                    DigitString(Len(SelectSeq(run, IsDigit))))
    ELSE IF ~AllIn(rest, IntSpace)
    THEN ValueError("invalid literal for int() with base 10", s)
    ELSE [raised |-> "none",
          value |-> sign * DigitsValue(Significant(SelectSeq(run, IsDigit)))]

IntRun(s, sign, t, n) == IntNumber(s, sign, SubSeq(t, 1, n), SubSeq(t, n + 1, Len(t)))

\* int(s) once the leading whitespace is skipped: an optional sign, then the run
IntSigned(s, t) ==
    IF t # <<>> /\ t[1] = Ord("-")
    THEN IntRun(s, -1, Tail(t), PrefixLen(Tail(t), DigitsAndUnderscore))
    ELSE IF t # <<>> /\ t[1] = Ord("+")
    THEN IntRun(s, 1, Tail(t), PrefixLen(Tail(t), DigitsAndUnderscore))
    ELSE IntRun(s, 1, t, PrefixLen(t, DigitsAndUnderscore))

\* int(s) of a string: the integer, or the ValueError
int(s) == IntSigned(s, SubSeq(s, PrefixLen(s, IntSpace) + 1, Len(s)))

\* what a `$` at the end of a pattern lets follow the match: one final newline
DropFinalNewline(s) ==
    IF s # <<>> /\ s[Len(s)] = 10 THEN SubSeq(s, 1, Len(s) - 1) ELSE s

\* re.match(r'^(\d+)$', s)
MatchDigits(s) ==
    DropFinalNewline(s) # <<>> /\ AllIn(DropFinalNewline(s), Digits)

NoMatch == [matched |-> FALSE]

\* the groups of the match of s when \d+ has taken its first nd characters and
\* \s* the ns after them: \w+ takes the rest; when nothing is left for \w+ and no
\* whitespace was taken, \d+ gives back its last digit to \w+
Groups(s, nd, ns, unit) ==
    IF nd = 0 THEN NoMatch
    ELSE IF nd + ns < Len(s)
    THEN IF AllIn(SubSeq(s, nd + ns + 1, Len(s)), unit)
         THEN [matched |-> TRUE, number |-> SubSeq(s, 1, nd),
               unit_alias |-> SubSeq(s, nd + ns + 1, Len(s))]
         ELSE NoMatch
    ELSE IF ns = 0 /\ nd >= 2 /\ In(s[nd], unit)
    THEN [matched |-> TRUE, number |-> SubSeq(s, 1, nd - 1),
          unit_alias |-> <<s[nd]>>]
    ELSE NoMatch

\* \s* takes the whitespace after the nd digits
AfterDigits(s, nd, unit) ==
    Groups(s, nd, PrefixLen(SubSeq(s, nd + 1, Len(s)), Whitespace), unit)

\* (\d+)\s*(\w+) on all of s: \d+ takes the longest run of digits
MatchAll(s, unit) == AfterDigits(s, PrefixLen(s, Digits), unit)

\* re.match(r'^(\d+)\s*(\w+)$', specifier) with the unit token drawn from `unit`
MatchWith(specifier, unit) == MatchAll(DropFinalNewline(specifier), unit)

\* the mutant of MatchSpecifier whose unit token is made of letters only
MatchSpecifierLetters(s) == MatchWith(s, Letters)

\* re.match(r'^(\d+)\s*(\w+)$', specifier) and match.groups()
MatchSpecifier(s) == MatchWith(s, WordChars)

(***************************************************************************)
(* datetime.timedelta, datetime.date and datetime.datetime.                 *)
(***************************************************************************)
\* the largest number of days of a timedelta, timedelta.max.days
MaxDeltaDays == 999999999

\* date.min.toordinal() and date.max.toordinal(): 0001-01-01 and 9999-12-31
MinOrdinal == 1

MaxOrdinal == 3652059

\* what a datetime operation gives when it raises OverflowError
OverflowError == [type |-> "OverflowError"]

\* the timedelta of a normalised triple, OverflowError when its days are out of
\* range
Normalised(days, seconds, microseconds) ==
    IF days > MaxDeltaDays \/ days < -MaxDeltaDays THEN OverflowError
    ELSE [type |-> "timedelta", days |-> days, seconds |-> seconds,
          microseconds |-> microseconds]

\* datetime.timedelta(days=, seconds=, microseconds=, minutes=, hours=) of
\* integers: the normalised triple with 0 <= seconds < 86400 and
\* 0 <= microseconds < 1000000, or OverflowError when its days are out of range
timedelta(days, seconds, microseconds, minutes, hours) ==
    LET s == seconds + 60 * minutes + 3600 * hours + (microseconds \div 1000000)
    IN  Normalised(days + (s \div 86400), s % 86400, microseconds % 1000000)

\* datetime.timedelta(**kwargs) of a dict whose keys are canonical unit names
timedeltaKw(kwargs) ==
    LET get(k) == IF k \in DOMAIN kwargs THEN kwargs[k] ELSE 0
    IN  timedelta(get("days"), get("seconds"), get("microseconds"),
                  get("minutes"), get("hours"))

\* timedelta + timedelta
TdAdd(a, b) ==
    timedelta(a.days + b.days, a.seconds + b.seconds,
              a.microseconds + b.microseconds, 0, 0)

\* timedelta <= timedelta
TdLe(a, b) ==
    \/ a.days < b.days
    \/ a.days = b.days /\ a.seconds < b.seconds
    \/ a.days = b.days /\ a.seconds = b.seconds /\ a.microseconds <= b.microseconds

date(ordinal) == [type |-> "date", ordinal |-> ordinal]

datetime(ordinal, second, microsecond) ==
    [type |-> "datetime", ordinal |-> ordinal, second |-> second,
     microsecond |-> microsecond]

\* the value a temporal value has as a span since ordinal 0
SinceZero(d) ==
    IF d.type = "date" THEN timedelta(d.ordinal, 0, 0, 0, 0)
    ELSE timedelta(d.ordinal, d.second, d.microsecond, 0, 0)

\* the date or datetime of kind `type` that lies t after ordinal 0, or
\* OverflowError when it is not between date.min and date.max
FromZero(type, t) ==
    IF t.type = "OverflowError" THEN OverflowError
    ELSE IF t.days < MinOrdinal \/ t.days > MaxOrdinal THEN OverflowError
    ELSE IF type = "date" THEN date(t.days)
    ELSE datetime(t.days, t.seconds, t.microseconds)

\* the mutant of Plus that moves a date by the step rounded to the nearest day
PlusRounded(d, step) ==
    IF d.type = "date"
    THEN FromZero("date",
             timedelta(d.ordinal + step.days
                           + (IF step.seconds >= 12 * 3600 THEN 1 ELSE 0),
                       0, 0, 0, 0))
    ELSE FromZero("datetime", TdAdd(SinceZero(d), step))

\* d + step: a date moves by the days of the step only, a datetime by all of it;
\* OverflowError when the result is out of range
Plus(d, step) ==
    IF d.type = "date"
    THEN FromZero("date", timedelta(d.ordinal + step.days, 0, 0, 0, 0))
    ELSE FromZero("datetime", TdAdd(SinceZero(d), step))

\* whether d <= to is defined: Python raises TypeError comparing a date with a datetime
Comparable(d, to) == d.type = to.type

\* d <= to of two dates or of two datetimes
Le(d, to) == TdLe(SinceZero(d), SinceZero(to))

(***************************************************************************)
(* delta: the duration parser.                                              *)
(***************************************************************************)
\* delta.UNIT_NAMES: canonical unit name -> its aliases
UNIT_NAMES ==
    [days |->
        <<Str(<<"d">>),
          Str(<<"d", "a", "y">>)>>,
     hours |->
        <<Str(<<"h">>),
          Str(<<"h", "r">>),
          Str(<<"h", "r", "s">>),
          Str(<<"h", "o", "u", "r">>)>>,
     minutes |->
        <<Str(<<"m">>),
          Str(<<"m", "i", "n">>),
          Str(<<"m", "i", "n", "s">>),
          Str(<<"m", "i", "n", "u", "t", "e">>)>>,
     seconds |->
        <<Str(<<"s">>),
          Str(<<"s", "e", "c">>),
          Str(<<"s", "e", "c", "s">>),
          Str(<<"s", "e", "c", "o", "n", "d">>)>>,
     microseconds |->
        <<Str(<<"m", "s">>),
          Str(<<"m", "i", "c", "r", "o", "s", "e", "c">>),
          Str(<<"m", "i", "c", "r", "o", "s", "e", "c", "s">>),
          Str(<<"m", "i", "c", "r", "o", "s", "e", "c", "o", "n", "d">>)>>]

\* the canonical unit names, the keys of UNIT_NAMES, spelled out
CnameChars ==
    [days |-> Str(<<"d", "a", "y", "s">>),
     hours |-> Str(<<"h", "o", "u", "r", "s">>),
     minutes |-> Str(<<"m", "i", "n", "u", "t", "e", "s">>),
     seconds |-> Str(<<"s", "e", "c", "o", "n", "d", "s">>),
     microseconds |-> Str(<<"m", "i", "c", "r", "o", "s", "e", "c", "o", "n", "d", "s">>)]

\* delta.UNIT_ALIASES: UNIT_NAMES turned inside-out, every alias and every
\* canonical name pointing to the canonical name
UNIT_ALIASES_keys ==
    UNION {{UNIT_NAMES[c][i] : i \in DOMAIN UNIT_NAMES[c]} \cup {CnameChars[c]} :
           c \in DOMAIN UNIT_NAMES}

UNIT_ALIASES ==
    [a \in UNIT_ALIASES_keys |->
        CHOOSE c \in DOMAIN UNIT_NAMES :
            \/ a = CnameChars[c]
            \/ \E i \in DOMAIN UNIT_NAMES[c] : UNIT_NAMES[c][i] = a]

\* cls.UNIT_ALIASES.get(unit_alias); Python's None is the string "None" here,
\* which is no canonical unit name
UNIT_ALIASES_get(unit_alias) ==
    IF unit_alias \in DOMAIN UNIT_ALIASES THEN UNIT_ALIASES[unit_alias] ELSE "None"

\* kwargs.get(unit_cname, 0)
kwargs_get(kwargs, unit_cname) ==
    IF unit_cname \in DOMAIN kwargs THEN kwargs[unit_cname] ELSE 0

\* the mutant of Accumulate that overwrites: kwargs[unit_cname] = number
AccumulateOverwrite(kwargs, unit_cname, number) ==
    [k \in DOMAIN kwargs \cup {unit_cname} |->
        IF k = unit_cname THEN number ELSE kwargs[k]]

\* kwargs[unit_cname] = kwargs.get(unit_cname, 0) + number
Accumulate(kwargs, unit_cname, number) ==
    [k \in DOMAIN kwargs \cup {unit_cname} |->
        IF k = unit_cname THEN kwargs_get(kwargs, unit_cname) + number
        ELSE kwargs[k]]

\* return datetime.timedelta(**kwargs)
deltaReturn(value) ==
    IF value = OverflowError THEN [raised |-> "OverflowError"]
    ELSE [raised |-> "none", value |-> value]

\* the loop of delta.__new__ from specifier i on, with kwargs as accumulated so far
RECURSIVE deltaLoop(_, _, _)

\* the loop's body once the specifier has given a number and a lowered unit alias
deltaUnit(specifiers, i, kwargs, number, unit_alias) ==
    IF UNIT_ALIASES_get(unit_alias) = "None"
    THEN ValueError("Invalid unit", unit_alias)
    ELSE deltaLoop(specifiers, i + 1,
                   Accumulate(kwargs, UNIT_ALIASES_get(unit_alias), number))

\* the loop's body once the match has given its groups, number being the
\* outcome of int(number): its ValueError leaves delta before the unit is
\* looked up
deltaGroups(specifiers, i, kwargs, number, unit_alias) ==
    IF number.raised # "none" THEN number
    ELSE deltaUnit(specifiers, i, kwargs, number.value, unit_alias)

\* the loop's body for a trimmed specifier and its match
deltaBody(specifiers, i, kwargs, specifier, match) ==
    IF ~match.matched
    THEN ValueError("Invalid delta specifier", specifier)
    ELSE deltaGroups(specifiers, i, kwargs, int(match.number), lower(match.unit_alias))

deltaLoop(specifiers, i, kwargs) ==
    IF i > Len(specifiers) THEN deltaReturn(timedeltaKw(kwargs))
    ELSE deltaBody(specifiers, i, kwargs, strip(specifiers[i]),
                   MatchSpecifier(strip(specifiers[i])))

\* delta(string)
delta(s) == deltaLoop(split(s, Ord(",")), 1, <<>>)

(***************************************************************************)
(* DateRange.                                                               *)
(***************************************************************************)
\* what delta's outcome r makes of the step without the try/except
Unhandled(step, r) ==
    IF r.raised # "none" THEN [raised |-> r.raised, step |-> step]
    ELSE [raised |-> "none", step |-> r.value]

\* what delta's outcome r makes of the step: except ValueError: pass; any other
\* exception of delta leaves the constructor
ExceptValueError(step, r) ==
    IF r.raised = "ValueError" THEN [raised |-> "none", step |-> step]
    ELSE Unhandled(step, r)

\* try: step = delta(step) / except ValueError: pass
TryDelta(step) == ExceptValueError(step, delta(step.value))

\* step = the timedelta v, or the OverflowError of making it
DaysStep(step, v) ==
    IF v = OverflowError THEN [raised |-> "OverflowError", step |-> step]
    ELSE [raised |-> "none", step |-> v]

\* step = datetime.timedelta(days=int(step)), number being the outcome of
\* int(step): its ValueError leaves the constructor
DigitsStep(step, number) ==
    IF number.raised # "none" THEN [raised |-> number.raised, step |-> step]
    ELSE DaysStep(step, timedelta(number.value, 0, 0, 0, 0))

\* the mutant of ResolveStep that reads a string of digits as a delta spec
ResolveStepNoDigits(step) ==
    IF step.type = "int" THEN DaysStep(step, timedelta(step.value, 0, 0, 0, 0))
    ELSE IF step.type = "str" THEN TryDelta(step)
    ELSE [raised |-> "none", step |-> step]

\* the step resolution of DateRange.__init__: an integer and a string of digits
\* are days, any other string goes to delta, anything else is left as it is
ResolveStep(step) ==
    IF step.type = "int" THEN DaysStep(step, timedelta(step.value, 0, 0, 0, 0))
    ELSE IF step.type = "str"
    THEN IF MatchDigits(step.value)
         THEN DigitsStep(step, int(step.value))
         ELSE TryDelta(step)
    ELSE [raised |-> "none", step |-> step]

\* the end of DateRange.__init__, r being the outcome of the step resolution:
\* if not isinstance(step, datetime.timedelta): raise TypeError
CheckStep(d, to, r) ==
    IF r.raised # "none" THEN [raised |-> r.raised, self |-> None]
    ELSE IF r.step.type # "timedelta"
    THEN [raised |-> "TypeError", self |-> None]
    ELSE [raised |-> "none", self |-> [date |-> d, to |-> to, step |-> r.step]]

\* DateRange.__init__(date, to, step): the exception it raises and the new object
DateRange__init__(d, to, step) == CheckStep(d, to, ResolveStep(step))

\* daterange(date, to, step)
daterange(d, to, step) == DateRange__init__(d, to, step)

\* self.condition(d): True without a bound, d <= to with one
condition(obj, d) ==
    IF obj.to = None THEN TRUE ELSE Le(d, obj.to)

\* the outcome of a call of next that raises: no value, the object as it was
Raise(exception, obj) == [raised |-> exception, ret |-> None, self |-> obj]

\* current_date = self.date; self.date += self.step; return current_date, new
\* being self.date + self.step
Advance(obj, new, returned) ==
    IF new = OverflowError THEN Raise("OverflowError", obj)
    ELSE [raised |-> "none",
          ret |-> IF returned = "new" THEN new ELSE obj.date,
          self |-> [obj EXCEPT !.date = new]]

\* the mutant of DateRange_next that adds the step also when the range is exhausted
DateRange_nextAlwaysAdds(obj) ==
    IF obj.to # None /\ ~Comparable(obj.date, obj.to) THEN Raise("TypeError", obj)
    ELSE IF condition(obj, obj.date)
    THEN Advance(obj, Plus(obj.date, obj.step), "current")
    ELSE Raise("StopIteration",
               Advance(obj, Plus(obj.date, obj.step), "current").self)

\* the mutant of DateRange_next that returns the value after the increment
DateRange_nextReturnsNew(obj) ==
    IF obj.to # None /\ ~Comparable(obj.date, obj.to) THEN Raise("TypeError", obj)
    ELSE IF condition(obj, obj.date)
    THEN Advance(obj, Plus(obj.date, obj.step), "new")
    ELSE Raise("StopIteration", obj)

\* DateRange.next(): the exception it raises, the value it returns and the object
\* after the call
DateRange_next(obj) ==
    IF obj.to # None /\ ~Comparable(obj.date, obj.to) THEN Raise("TypeError", obj)
    ELSE IF condition(obj, obj.date)
    THEN Advance(obj, Plus(obj.date, obj.step), "current")
    ELSE Raise("StopIteration", obj)

(***************************************************************************)
(* The inputs.                                                              *)
(***************************************************************************)
Dates == {date(Date20090621 + k) : k \in 0..MaxDay}

Datetimes == {datetime(Date20090621 + k, s, 0) : k \in 0..1, s \in {0, 12 * 3600}}

\* the last two days and the first day of the calendar, and noon of the last day
EdgeDates == {date(MaxOrdinal - 1), date(MaxOrdinal), date(MinOrdinal)}

EdgeDatetimes == {datetime(MaxOrdinal, 12 * 3600, 0)}

Temporals == Dates \cup Datetimes \cup EdgeDates \cup EdgeDatetimes

StepInts == {[type |-> "int", value |-> n] : n \in (-1)..MaxN}

StepDays(n) == [type |-> "str", value |-> DigitString(n) \o Str(<<" ", "d", "a", "y", "s">>)]

StepDigits(n) == [type |-> "str", value |-> DigitString(n)]

StepStrings ==
    {[type |-> "str", value |-> Str(<<"2", " ", "D">>)],
     [type |-> "str", value |-> Str(<<"4", " ", "h", "o", "u", "r", "s">>)],
     [type |-> "str", value |-> Str(<<"3", "6", " ", "h", "o", "u", "r", "s">>)],
     [type |-> "str", value |-> Str(<<"1", " ", "d", "a", "y", ",", " ", "1", "2", " ", "h", "o", "u", "r", "s">>)],
     [type |-> "str", value |-> Str(<<"1", "2", "h">>)],
     [type |-> "str", value |-> Str(<<"t", "w", "o", " ", "d", "a", "y", "s">>)],
     [type |-> "str", value |-> Str(<<"2", " ", "f", "o", "r", "t", "n", "i", "g", "h", "t", "s">>)],
     [type |-> "str", value |-> <<>>],
     [type |-> "str", value |-> Str(<<"2", " ", "d", "_">>)],
     [type |-> "str", value |-> Str(<<"0", "2">>)],
     [type |-> "str", value |-> Str(<<"1", "2">>)],
     [type |-> "str", value |-> (Str(<<"2">>) \o <<13>> \o Str(<<"d">>))],
     [type |-> "str", value |-> (Str(<<"2", " ", "d">>) \o <<201>>)],
     [type |-> "str", value |-> (Str(<<"1", " ", "d">>) \o <<178>>)],
     [type |-> "str", value |-> <<1634>>],
     \* "2\n", "2\u2003d", "2 d\u0100"
     [type |-> "str", value |-> Str(<<"2">>) \o <<10>>],
     [type |-> "str", value |-> Str(<<"2">>) \o <<8195>> \o Str(<<"d">>)],
     [type |-> "str", value |-> Str(<<"2", " ", "d">>) \o <<256>>]}

\* the steps of more days than a timedelta holds
StepsTooLong ==
    {[type |-> "int", value |-> MaxDeltaDays + 1], StepDigits(MaxDeltaDays + 1),
     StepDays(MaxDeltaDays + 1)}

\* n zeros
Zeros(n) == [i \in 1..n |-> Ord("0")]

\* one day written in MaxStrDigits digits, and in one digit more as digits and
\* as a number of days
StepsManyDigits ==
    {[type |-> "str", value |-> Zeros(MaxStrDigits - 1) \o Str(<<"1">>)],
     [type |-> "str", value |-> Zeros(MaxStrDigits) \o Str(<<"1">>)],
     [type |-> "str", value |-> Zeros(MaxStrDigits) \o Str(<<"1", " ", "d", "a", "y", "s">>)]}

\* the default step, timedelta(days=1), and other timedelta steps: none, half a
\* day, a day and a half, minus four hours, one microsecond
StepTimedeltas ==
    {timedelta(1, 0, 0, 0, 0), timedelta(0, 0, 0, 0, 0), timedelta(0, 0, 0, 0, 12),
     timedelta(0, 0, 0, 0, 36), timedelta(0, 0, 0, 0, -4), timedelta(0, 0, 1, 0, 0)}

\* steps that are neither a timedelta, an integer nor a string
StepOthers == {[type |-> "float"], None}

Steps ==
    StepInts \cup {StepDigits(n) : n \in 0..MaxN} \cup {StepDays(n) : n \in 0..MaxN}
    \cup StepStrings \cup StepsTooLong \cup StepsManyDigits \cup StepTimedeltas
    \cup StepOthers

\* the alias table of the documentation: canonical unit -> accepted aliases
SpecAliases ==
    [days |->
        <<Str(<<"d">>),
          Str(<<"d", "a", "y">>),
          Str(<<"d", "a", "y", "s">>)>>,
     hours |->
        <<Str(<<"h">>),
          Str(<<"h", "r">>),
          Str(<<"h", "r", "s">>),
          Str(<<"h", "o", "u", "r">>),
          Str(<<"h", "o", "u", "r", "s">>)>>,
     minutes |->
        <<Str(<<"m">>),
          Str(<<"m", "i", "n">>),
          Str(<<"m", "i", "n", "s">>),
          Str(<<"m", "i", "n", "u", "t", "e">>),
          Str(<<"m", "i", "n", "u", "t", "e", "s">>)>>,
     seconds |->
        <<Str(<<"s">>),
          Str(<<"s", "e", "c">>),
          Str(<<"s", "e", "c", "s">>),
          Str(<<"s", "e", "c", "o", "n", "d">>),
          Str(<<"s", "e", "c", "o", "n", "d", "s">>)>>,
     microseconds |->
        <<Str(<<"m", "s">>),
          Str(<<"m", "i", "c", "r", "o", "s", "e", "c">>),
          Str(<<"m", "i", "c", "r", "o", "s", "e", "c", "s">>),
          Str(<<"m", "i", "c", "r", "o", "s", "e", "c", "o", "n", "d">>),
          Str(<<"m", "i", "c", "r", "o", "s", "e", "c", "o", "n", "d", "s">>)>>]

\* s.upper(), to write the inputs in capitals
upper(s) ==
    [i \in DOMAIN s |->
        IF Ord("a") <= s[i] /\ s[i] <= Ord("z") THEN s[i] - 32 ELSE s[i]]

\* specifiers written by hand, each with the number and the unit it states
ValidPieces ==
    {[text |-> Str(<<"2", " ", "D">>),
      number |-> 2, unit |-> "days"],
     [text |-> Str(<<"2", " ", "d", "a", "y">>),
      number |-> 2, unit |-> "days"],
     [text |-> Str(<<"2", " ", "d", "a", "y", "s">>),
      number |-> 2, unit |-> "days"],
     [text |-> Str(<<"1", " ", "d", "a", "y">>),
      number |-> 1, unit |-> "days"],
     [text |-> Str(<<"3", " ", "d", "a", "y", "s">>),
      number |-> 3, unit |-> "days"],
     [text |-> Str(<<"4", " ", "h", "o", "u", "r", "s">>),
      number |-> 4, unit |-> "hours"],
     [text |-> Str(<<"5", " ", "m", "i", "n", "u", "t", "e", "s">>),
      number |-> 5, unit |-> "minutes"],
     [text |-> Str(<<"3", " ", "s", "e", "c", "o", "n", "d", "s">>),
      number |-> 3, unit |-> "seconds"],
     [text |-> Str(<<"1", "2", "0", " ", "m", "i", "c", "r", "o", "s", "e", "c", "o", "n", "d", "s">>),
      number |-> 120, unit |-> "microseconds"],
     [text |-> Str(<<" ", "3", "6", "h", " ">>),
      number |-> 36, unit |-> "hours"],
     [text |-> Str(<<"9", "0", " ", "M", "i", "n">>),
      number |-> 90, unit |-> "minutes"],
     [text |-> Str(<<"7", "m", "s">>),
      number |-> 7, unit |-> "microseconds"],
     [text |-> Str(<<"2", " ", " ", "S", "E", "C", "S">>),
      number |-> 2, unit |-> "seconds"],
     [text |-> Str(<<"1", "5", "0", "0", "0", "0", "0", " ", "m", "i", "c", "r", "o", "s", "e", "c", "s">>),
      number |-> 1500000, unit |-> "microseconds"],
     [text |-> (Str(<<"0", "0", "7">>) \o <<9>> \o Str(<<"d">>)),
      number |-> 7, unit |-> "days"],
     [text |-> (<<13>> \o Str(<<"2">>) \o <<31>> \o Str(<<"d">>) \o <<12>>),
      number |-> 2, unit |-> "days"],
     [text |-> (<<160>> \o Str(<<"1">>) \o <<11>> \o Str(<<"H">>) \o <<133>>),
      number |-> 1, unit |-> "hours"],
     [text |-> (<<1634>> \o Str(<<" ", "d">>)),
      number |-> 2, unit |-> "days"],
     \* "2\u2003d"
     [text |-> (Str(<<"2">>) \o <<8195>> \o Str(<<"d">>)),
      number |-> 2, unit |-> "days"],
     \* "\u30001\u2028hrs\u205f"
     [text |-> (<<12288>> \o Str(<<"1">>) \o <<8232>> \o Str(<<"h", "r", "s">>) \o <<8287>>),
      number |-> 1, unit |-> "hours"]}

\* specifiers whose sum can be more than a timedelta holds, and specifiers
\* written in MaxStrDigits digits and more
LongPieces ==
    {[text |-> DigitString(MaxDeltaDays + 1) \o Str(<<" ", "d", "a", "y", "s">>),
      number |-> MaxDeltaDays + 1, unit |-> "days"],
     [text |-> DigitString(MaxDeltaDays) \o Str(<<" ", "D">>),
      number |-> MaxDeltaDays, unit |-> "days"],
     [text |-> Str(<<"2", "4", " ", "h", "o", "u", "r", "s">>),
      number |-> 24, unit |-> "hours"],
     [text |-> Str(<<"2", "3", "h">>),
      number |-> 23, unit |-> "hours"],
     [text |-> Zeros(MaxStrDigits - 1) \o Str(<<"7", " ", "d">>),
      number |-> 7, unit |-> "days"],
     [text |-> Zeros(MaxStrDigits) \o Str(<<"7", " ", "d">>),
      number |-> 7, unit |-> "days"],
     [text |-> Zeros(MaxStrDigits + 1) \o Str(<<"3", " ", "h", "o", "u", "r", "s">>),
      number |-> 3, unit |-> "hours"]}

\* "2 <alias>" and "2 <ALIAS>" for every alias of the documentation's table
AliasPieces ==
    UNION {UNION {{[text |-> Str(<<"2", " ">>) \o SpecAliases[c][i], number |-> 2, unit |-> c],
                   [text |-> Str(<<"2", " ">>) \o upper(SpecAliases[c][i]), number |-> 2, unit |-> c]} :
                  i \in DOMAIN SpecAliases[c]} :
           c \in DOMAIN SpecAliases}

\* specifiers delta rejects
InvalidPieces ==
    {[text |-> Str(<<"t", "w", "o", " ", "d", "a", "y", "s">>),
      number |-> 0, unit |-> "None"],
     [text |-> <<>>,
      number |-> 0, unit |-> "None"],
     [text |-> Str(<<"1", "2">>),
      number |-> 0, unit |-> "None"],
     [text |-> Str(<<"2", " ", "d", "_">>),
      number |-> 0, unit |-> "None"],
     [text |-> Str(<<"2", " ", "d", "a", "y", "s", "3">>),
      number |-> 0, unit |-> "None"],
     [text |-> Str(<<"2", " ", "f", "o", "r", "t", "n", "i", "g", "h", "t", "s">>),
      number |-> 0, unit |-> "None"],
     [text |-> Str(<<"2", " ", "m", "o", "n", "t", "h", "s">>),
      number |-> 0, unit |-> "None"],
     [text |-> Str(<<"1", ".", "5", " ", "d">>),
      number |-> 0, unit |-> "None"],
     [text |-> Str(<<"d", " ", "2">>),
      number |-> 0, unit |-> "None"],
     [text |-> (Str(<<"2", " ", "d">>) \o <<201>>),
      number |-> 0, unit |-> "None"],
     [text |-> (Str(<<"1", " ", "d">>) \o <<178>>),
      number |-> 0, unit |-> "None"],
     [text |-> (<<178>> \o Str(<<" ", "d">>)),
      number |-> 0, unit |-> "None"],
     \* "2 d\u0100"
     [text |-> (Str(<<"2", " ", "d">>) \o <<256>>),
      number |-> 0, unit |-> "None"]}

\* other specifiers: "2 \u4e2d", "2 \u0394", "2 \u039f\u03a3", "2 \u03a3\u039f",
\* "2 \u0130", "2\x1cd", and with more than MaxStrDigits digits "0...07 zz",
\* "0...07 !" and "0...07"
OtherPieces ==
    {[text |-> Str(<<"2", " ">>) \o <<20013>>,
      number |-> 0, unit |-> "None"],
     [text |-> Str(<<"2", " ">>) \o <<916>>,
      number |-> 0, unit |-> "None"],
     [text |-> Str(<<"2", " ">>) \o <<927, 931>>,
      number |-> 0, unit |-> "None"],
     [text |-> Str(<<"2", " ">>) \o <<931, 927>>,
      number |-> 0, unit |-> "None"],
     [text |-> Str(<<"2", " ">>) \o <<304>>,
      number |-> 0, unit |-> "None"],
     [text |-> Str(<<"2">>) \o <<28>> \o Str(<<"d">>),
      number |-> 2, unit |-> "days"],
     [text |-> Zeros(MaxStrDigits) \o Str(<<"7", " ", "z", "z">>),
      number |-> 0, unit |-> "None"],
     [text |-> Zeros(MaxStrDigits) \o Str(<<"7", " ", "!">>),
      number |-> 0, unit |-> "None"],
     [text |-> Zeros(MaxStrDigits) \o Str(<<"7">>),
      number |-> 0, unit |-> "None"]}

Pieces == ValidPieces \cup InvalidPieces

RECURSIVE Join(_)
Join(ps) ==
    IF Len(ps) = 0 THEN <<>>
    ELSE IF Len(ps) = 1 THEN ps[1].text
    ELSE ps[1].text \o Str(<<",">>) \o Join(Tail(ps))

PieceSeqs ==
    UNION {[1..n -> Pieces] : n \in 1..MaxSpecifiers}
    \cup {<<p>> : p \in AliasPieces}
    \cup {<<p>> : p \in LongPieces} \cup {<<p, q>> : p, q \in LongPieces}
    \cup {<<p>> : p \in OtherPieces}

\* "1", "2", "d", "D", " ", ",", "_", "\r", "\u2003" and "\u0100"
RawAlphabet ==
    {Ord("1"), Ord("2"), Ord("d"), Ord("D"), Ord(" "), Ord(","), Ord("_"), 13,
     8195, 256}

RawStrings == UNION {[1..n -> RawAlphabet] : n \in 0..MaxRaw}

(***************************************************************************)
(* Spec: one DateRange, constructed and then advanced.                      *)
(***************************************************************************)
Idle == <<>>

Init ==
    /\ pc = "start"
    /\ args \in [date : Temporals, to : Temporals \cup {None}, step : Steps]
    /\ self = None
    /\ raised = "none"
    /\ ret = None
    /\ hist = <<>>
    /\ peers = Idle
    /\ pieces = Idle
    /\ string = Idle
    /\ result = None

\* r = daterange(date, to, step)
Construct ==
    /\ pc = "start"
    /\ \E r \in {daterange(args.date, args.to, args.step)} :
           /\ pc' = IF r.raised = "none" THEN "constructed" ELSE "failed"
           /\ self' = r.self
           /\ raised' = r.raised
    /\ UNCHANGED <<args, ret, hist, peers, pieces, string, result>>

\* next(r)
CallNext ==
    /\ pc = "constructed"
    /\ Len(hist) < MaxCalls
    /\ \E r \in {DateRange_next(self)} :
           /\ self' = r.self
           /\ raised' = r.raised
           /\ ret' = r.ret
           /\ hist' = Append(hist, [date |-> self.date, raised |-> r.raised,
                                    ret |-> r.ret])
    /\ UNCHANGED <<pc, args, peers, pieces, string, result>>

Next == Construct \/ CallNext

Spec == Init /\ [][Next]_vars

(***************************************************************************)
(* SpecEq: DateRanges over the same start and bound, their steps the        *)
(* spellings of n days, advanced in lockstep.                               *)
(***************************************************************************)
Spellings(n) ==
    <<[type |-> "int", value |-> n], StepDigits(n), StepDays(n)>>
    \o (IF timedelta(n, 0, 0, 0, 0) = OverflowError THEN <<>>
        ELSE <<timedelta(n, 0, 0, 0, 0)>>)

\* the numbers of days of the steps: small ones, the most a timedelta holds, and
\* one more
StepNumbers == 0..MaxN \cup {MaxDeltaDays, MaxDeltaDays + 1}

InitEq ==
    /\ \E d \in Temporals, to \in Temporals \cup {None}, n \in StepNumbers :
          peers = [i \in DOMAIN Spellings(n) |->
                      [pc |-> "start", n |-> n,
                       args |-> [date |-> d, to |-> to, step |-> Spellings(n)[i]],
                       self |-> None, raised |-> "none", hist |-> <<>>]]
    /\ pc = "idle"
    /\ args = Idle
    /\ self = None
    /\ raised = "none"
    /\ ret = None
    /\ hist = <<>>
    /\ pieces = Idle
    /\ string = Idle
    /\ result = None

\* the peer p after its constructor call gave r
Constructed(p, r) ==
    [p EXCEPT !.pc = IF r.raised = "none" THEN "constructed" ELSE "failed",
              !.self = r.self, !.raised = r.raised]

\* the peer p after its call of next gave r
Called(p, r) ==
    [p EXCEPT !.self = r.self, !.raised = r.raised,
              !.hist = Append(p.hist, [date |-> p.self.date, raised |-> r.raised,
                                       ret |-> r.ret])]

ConstructPeers ==
    /\ \A i \in DOMAIN peers : peers[i].pc = "start"
    /\ peers' = [i \in DOMAIN peers |->
                    Constructed(peers[i],
                                daterange(peers[i].args.date, peers[i].args.to,
                                          peers[i].args.step))]
    /\ UNCHANGED <<pc, args, self, raised, ret, hist, pieces, string, result>>

NextPeers ==
    /\ \A i \in DOMAIN peers : peers[i].pc = "constructed"
    /\ \A i \in DOMAIN peers : Len(peers[i].hist) < MaxCalls
    /\ peers' = [i \in DOMAIN peers |->
                    Called(peers[i], DateRange_next(peers[i].self))]
    /\ UNCHANGED <<pc, args, self, raised, ret, hist, pieces, string, result>>

NextEq == ConstructPeers \/ NextPeers

SpecEq == InitEq /\ [][NextEq]_vars

(***************************************************************************)
(* SpecDelta: delta applied to one string.                                  *)
(***************************************************************************)
InitDelta ==
    /\ \/ pieces \in PieceSeqs /\ string = Join(pieces)
       \/ pieces = <<>> /\ string \in RawStrings
    /\ result = None
    /\ pc = "idle"
    /\ args = Idle
    /\ self = None
    /\ raised = "none"
    /\ ret = None
    /\ hist = <<>>
    /\ peers = Idle

CallDelta ==
    /\ result = None
    /\ result' = delta(string)
    /\ UNCHANGED <<pc, args, self, raised, ret, hist, peers, pieces, string>>

NextDelta == CallDelta

SpecDelta == InitDelta /\ [][NextDelta]_vars

(***************************************************************************)
(* Definitions the properties share.                                        *)
(***************************************************************************)
Zero == timedelta(0, 0, 0, 0, 0)

Positive(step) == ~TdLe(step, Zero)

\* n * timedelta
TdMul(n, a) == timedelta(n * a.days, n * a.seconds, n * a.microseconds, 0, 0)

TdSub(a, b) ==
    timedelta(a.days - b.days, a.seconds - b.seconds,
              a.microseconds - b.microseconds, 0, 0)

\* a DateRange with a bound its values can be compared with
IsBounded == pc = "constructed" /\ self.to # None /\ Comparable(args.date, self.to)

IsUnbounded == pc = "constructed" /\ self.to = None

Stopped(i) == hist[i].raised = "StopIteration"

Returned(i) == hist[i].raised = "none"

\* the current value after call i
After(i) == IF i < Len(hist) THEN hist[i + 1].date ELSE self.date

\* the step by which the values of a range started at d really move: a date
\* moves by the whole days of the normalised step
EffectiveStep(d, step) ==
    IF d.type = "date" THEN timedelta(step.days, 0, 0, 0, 0) ELSE step

\* d + n * EffectiveStep(d, step), in closed form; OverflowError when the
\* calendar has no such value
NthValue(d, step, n) ==
    FromZero(d.type, TdAdd(SinceZero(d), TdMul(n, EffectiveStep(d, step))))

Overflowed(i) == hist[i].raised = "OverflowError"

(***************************************************************************)
(* C1                                                                       *)
(***************************************************************************)
\* C1, for the steps that move the value (a positive step for a datetime, a step
\* of at least one whole day for a date): in a bounded range every value returned
\* by next is <= bound; when the current value equals bound that call returns
\* bound; and the call right after it signals StopIteration.
C1_BoundInclusive ==
    IsBounded =>
        \A i \in DOMAIN hist :
            /\ Returned(i) => Le(hist[i].ret, self.to)
            /\ hist[i].date = self.to => Returned(i) /\ hist[i].ret = self.to
            /\ (/\ hist[i].date = self.to
                /\ Positive(EffectiveStep(args.date, self.step))
                /\ i < Len(hist)) => Stopped(i + 1)

(***************************************************************************)
(* C2                                                                       *)
(***************************************************************************)
\* C2: once a call of next has signalled StopIteration, every later call on the
\* same instance signals StopIteration and returns no value, whatever the start,
\* the bound and the sign of the step.
C2_ExhaustionPermanent ==
    pc = "constructed" =>
        \A i, j \in DOMAIN hist :
            (i < j /\ Stopped(i)) => Stopped(j) /\ hist[j].ret = None

C2_Witness ==
    /\ pc = "constructed"
    /\ Len(hist) >= 3
    /\ Stopped(1) /\ Stopped(Len(hist))
    /\ self.step.days < 0

(***************************************************************************)
(* C3                                                                       *)
(***************************************************************************)
\* C3, for the values the calendar has: in an unbounded range no call signals
\* StopIteration, and the n-th call (from n = 0) returns start + n * E whenever
\* that value exists, E being the step for a datetime start and the whole days of
\* the step for a date start.
C3_UnboundedNth ==
    IsUnbounded =>
        \A i \in DOMAIN hist :
            /\ ~Stopped(i)
            /\ NthValue(args.date, self.step, i - 1) # OverflowError =>
                   /\ Returned(i)
                   /\ hist[i].ret = NthValue(args.date, self.step, i - 1)

(***************************************************************************)
(* C4                                                                       *)
(***************************************************************************)
\* bound - start
Span == TdSub(SinceZero(self.to), SinceZero(args.date))

\* C4, for the steps that move the value: a bounded range with start <= bound
\* whose effective step E is positive (E is the step for a datetime start and the
\* whole days of the step for a date start) returns exactly
\* floor((bound - start) / E) + 1 values: the n-th call (from n = 0) returns
\* start + n * E while n * E <= bound - start, and every later call signals
\* StopIteration with the current value > bound; with start > bound every call
\* signals StopIteration.
C4_BoundedCount ==
    /\ (IsBounded /\ Le(args.date, self.to)
            /\ Positive(EffectiveStep(args.date, self.step))) =>
           \A i \in DOMAIN hist :
               IF TdLe(TdMul(i - 1, EffectiveStep(args.date, self.step)), Span)
               THEN /\ Returned(i)
                    /\ hist[i].ret = NthValue(args.date, self.step, i - 1)
                    /\ Le(hist[i].ret, self.to)
               ELSE /\ Stopped(i)
                    /\ ~Le(hist[i].date, self.to)
    /\ (IsBounded /\ ~Le(args.date, self.to)) => \A i \in DOMAIN hist : Stopped(i)

(***************************************************************************)
(* C5                                                                       *)
(***************************************************************************)
\* C5: the ranges built over the same start and bound with step = the integer n,
\* the string of the digits of n, the string 'n days' and timedelta(days=n), where
\* there is such a timedelta, are all constructed or all rejected, and those
\* constructed hold the same step and give the same outcomes call by call.
C5_StepSpellingsAgree ==
    \A i, j \in DOMAIN peers :
        /\ peers[i].pc = peers[j].pc
        /\ peers[i].self = peers[j].self
        /\ peers[i].hist = peers[j].hist

C5_Witness ==
    /\ Len(peers) = 4
    /\ peers[1].n = 2
    /\ Len(peers[2].hist) >= 4
    /\ peers[2].hist[3].raised = "none"
    /\ peers[3].hist[4].raised = "StopIteration"

(***************************************************************************)
(* C6                                                                       *)
(***************************************************************************)
OnlyDigits(s) == s # <<>> /\ AllIn(s, Digits)

\* a step that is neither a timedelta, an integer nor a string, or a string not
\* made of digits that delta rejects
Unresolvable(step) ==
    \/ step.type \notin {"timedelta", "int", "str"}
    \/ /\ step.type = "str"
       /\ ~OnlyDigits(step.value)
       /\ delta(step.value).raised = "ValueError"

\* C6: a step that cannot be resolved to a timedelta makes the constructor fail
\* with TypeError, no object exists and next was never called; no ValueError
\* leaves the constructor for a string that is not made of digits; an object that
\* exists has a timedelta for its step.
C6_BadStepRejectedAtConstruction ==
    /\ (pc # "start" /\ args.step.type = "str" /\ ~OnlyDigits(args.step.value)) =>
           raised # "ValueError"
    /\ (pc # "start" /\ Unresolvable(args.step)) =>
           pc = "failed" /\ raised = "TypeError" /\ self = None /\ hist = <<>>
    /\ pc = "constructed" => self.step.type = "timedelta"

(***************************************************************************)
(* C7                                                                       *)
(***************************************************************************)
\* number units as a timedelta
UnitDelta(number, unit) ==
    CASE unit = "days" -> timedelta(number, 0, 0, 0, 0)
      [] unit = "hours" -> timedelta(0, 0, 0, 0, number)
      [] unit = "minutes" -> timedelta(0, 0, 0, number, 0)
      [] unit = "seconds" -> timedelta(0, number, 0, 0, 0)
      [] unit = "microseconds" -> timedelta(0, 0, number, 0, 0)

\* the sum of the specifiers, OverflowError when a timedelta cannot hold it; no
\* specifier is negative, so the sum is too long as soon as a part of it is
RECURSIVE SumOf(_)
SumOf(ps) ==
    IF Len(ps) = 0 THEN Zero
    ELSE LET first == UnitDelta(ps[1].number, ps[1].unit)
             rest  == SumOf(Tail(ps))
         IN  IF first = OverflowError \/ rest = OverflowError THEN OverflowError
             ELSE TdAdd(first, rest)

AllValid(ps) == Len(ps) > 0 /\ \A i \in DOMAIN ps : ps[i].unit # "None"

\* a specifier whose number is written in more digits than int() converts
TooManyDigits(p) == PrefixLen(strip(p.text), Digits) > MaxStrDigits

Perms(n) == {f \in [1..n -> 1..n] : \A a, b \in 1..n : f[a] = f[b] => a = b}

\* the specifiers in any order give delta's result
OrderIndependent ==
    \A f \in Perms(Len(pieces)) :
        delta(Join([i \in 1..Len(pieces) |-> pieces[f[i]]])) = result

\* the outcome r is the result, or the same error as the result about another
\* number
SameOutcome(r) ==
    IF result.raised = "ValueError"
    THEN r.raised = "ValueError" /\ r.message = result.message
    ELSE r = result

\* the specifiers in any order give delta's outcome
OrderIndependentOutcome ==
    \A f \in Perms(Len(pieces)) :
        SameOutcome(delta(Join([i \in 1..Len(pieces) |-> pieces[f[i]]])))

\* C7 as claimed: for a string of well-formed specifiers with known units, delta
\* returns the sum over the specifiers of number x unit, whatever the case and the
\* alias the unit is written in, and the same timedelta for the specifiers in any
\* order.
C7_AsClaimed ==
    (AllValid(pieces) /\ result # None) =>
        /\ result.raised = "none"
        /\ result.value = SumOf(pieces)
        /\ OrderIndependent

\* C7: for a string of well-formed specifiers with known units, delta raises the
\* ValueError of int() when a number is written in more than 4300 digits;
\* otherwise it returns the sum over the specifiers of number x unit when a
\* timedelta can hold the sum (less than 1000000000 days) and raises
\* OverflowError when it cannot; whatever the case and the alias the unit is
\* written in, and with the same outcome for the specifiers in any order.
C7_DeltaIsSum ==
    (AllValid(pieces) /\ result # None) =>
        /\ IF \E i \in DOMAIN pieces : TooManyDigits(pieces[i])
           THEN /\ result.raised = "ValueError"
                /\ result.message =
                       "Exceeds the limit (4300 digits) for integer string conversion"
           ELSE IF SumOf(pieces) = OverflowError THEN result.raised = "OverflowError"
           ELSE result.raised = "none" /\ result.value = SumOf(pieces)
        /\ OrderIndependentOutcome

C7_Witness ==
    /\ Len(pieces) = 2
    /\ pieces[1].text = Str(<<"1", " ", "d", "a", "y">>)
    /\ pieces[2].text = Str(<<"2", " ", "D">>)
    /\ result # None
    /\ result.raised = "none"
    /\ result.value = timedelta(3, 0, 0, 0, 0)

(***************************************************************************)
(* C8                                                                       *)
(***************************************************************************)
\* the ways to read s as digits, whitespace and a unit token of characters of
\* unit: <<i, j>> where the digits are s[1..i] and the token starts after s[j].
\* A reading that leaves digits of the leading run to the token exists only if
\* the one that leaves a single digit does, so the readings kept here are those
\* that take the whole run or all of it but its last digit.
Readings(s, unit) ==
    {ij \in {PrefixLen(s, Digits) - 1, PrefixLen(s, Digits)} \X (1..Len(s)) :
        /\ 1 <= ij[1] /\ ij[1] <= ij[2] /\ ij[2] < Len(s)
        /\ AllIn(SubSeq(s, 1, ij[1]), Digits)
        /\ AllIn(SubSeq(s, ij[1] + 1, ij[2]), Whitespace)
        /\ AllIn(SubSeq(s, ij[2] + 1, Len(s)), unit)}

\* the reading with the most digits
MostDigits(readings) ==
    CHOOSE r \in readings : \A q \in readings : q[1] <= r[1]

\* whether the documentation's table lists the lowered token
ListedLower(token) ==
    \E c \in DOMAIN SpecAliases :
        \E k \in DOMAIN SpecAliases[c] : SpecAliases[c][k] = token

\* whether the documentation's table lists the token, case aside
Listed(token) == ListedLower(lower(token))

\* the kind of the trimmed specifier s, rd being its reading with the most digits
KindOf(s, rd, limited) ==
    IF limited /\ rd[1] > MaxStrDigits
    THEN "Exceeds the limit (4300 digits) for integer string conversion"
    ELSE IF ~Listed(SubSeq(s, rd[2] + 1, Len(s))) THEN "Invalid unit"
    ELSE "ok"

KindAmong(s, readings, limited) ==
    IF readings = {} THEN "Invalid delta specifier"
    ELSE KindOf(s, MostDigits(readings), limited)

\* the kind of a trimmed specifier; limited: a number of more than MaxStrDigits
\* digits is a kind of its own
Kind(s, unit, limited) == KindAmong(s, Readings(s, unit), limited)

\* delta fails on the first specifier that is not ok, with the error of its kind,
\* and with neither error when every specifier is ok
Classified(unit, limited) ==
    result # None =>
        LET parts == split(string, Ord(","))
            bad   == {i \in DOMAIN parts : Kind(strip(parts[i]), unit, limited) # "ok"}
        IN  IF bad = {} THEN result.raised # "ValueError"
            ELSE LET k == CHOOSE i \in bad : \A j \in bad : i <= j
                 IN  /\ result.raised = "ValueError"
                     /\ result.message = Kind(strip(parts[k]), unit, limited)

\* C8 as claimed: a trimmed specifier that is not digits, optional whitespace and a
\* unit token of letters only fails with the invalid-specifier error, and only one
\* of that shape with an unlisted unit fails with the invalid-unit error.
C8_AsClaimed == Classified(Letters, FALSE)

\* C8: a trimmed specifier that is not digits, optional whitespace and a unit
\* token of word characters (letters, digits and other alphanumerics, underscore)
\* fails with 'Invalid delta specifier'; one of that shape whose number is written
\* in more than 4300 digits fails with the ValueError of int(); any other of that
\* shape whose token is not in the alias table fails with 'Invalid unit', which is
\* the error of '12', '2 d_' and '2 days3'; either way no timedelta is returned,
\* valid earlier specifiers or not.
C8_RejectionKinds == Classified(WordChars, TRUE)

C8_Witness ==
    /\ Len(pieces) = 2
    /\ pieces[1].text = Str(<<"1", " ", "d", "a", "y">>)
    /\ pieces[2].text = Str(<<"2", " ", "d", "_">>)
    /\ result # None
    /\ result.raised = "ValueError"
    /\ result.message = "Invalid unit"

(***************************************************************************)
(* C9                                                                       *)
(***************************************************************************)
\* C9: a call of next that returns a value returns the current value it found and
\* leaves current + step as the current value; a call that signals StopIteration,
\* and one that raises OverflowError, returns nothing and leaves the current value
\* where it was; the step and the bound stay those the constructor set.
C9_Frame ==
    pc = "constructed" =>
        /\ self.to = args.to
        /\ self.step = daterange(args.date, args.to, args.step).self.step
        /\ \A i \in DOMAIN hist :
               /\ i = 1 => hist[i].date = args.date
               /\ Returned(i) =>
                      /\ hist[i].ret = hist[i].date
                      /\ After(i) = Plus(hist[i].date, self.step)
               /\ Stopped(i) =>
                      /\ hist[i].ret = None
                      /\ After(i) = hist[i].date
                      /\ self.date = hist[i].date
               /\ Overflowed(i) =>
                      /\ hist[i].ret = None
                      /\ After(i) = hist[i].date

C9_Witness ==
    /\ pc = "constructed"
    /\ Len(hist) >= 3
    /\ Returned(1) /\ hist[2].date # hist[1].date
    /\ Stopped(Len(hist) - 1) /\ Stopped(Len(hist))

(***************************************************************************)
(* C10                                                                      *)
(***************************************************************************)
\* the arguments whose step does not move the start: a step of nothing, or a date
\* with a step of less than a day
Stalling ==
    \/ args.step \in {[type |-> "int", value |-> 0], StepDigits(0), StepDays(0), Zero}
    \/ /\ args.date.type = "date"
       /\ args.step \in {[type |-> "str", value |-> Str(<<"4", " ", "h", "o", "u", "r", "s">>)],
                         [type |-> "str", value |-> Str(<<"1", "2", "h">>)],
                         timedelta(0, 0, 0, 0, 12), timedelta(0, 0, 1, 0, 0)}

\* C10: a zero step, or a step of less than a day on a date, is accepted by the
\* constructor and stalls the range: the current value stays the start, every call
\* finds it there, and without a bound, or with start <= bound, every call returns
\* the start and none signals StopIteration.
C10_Stall ==
    (pc # "start" /\ Stalling) =>
        /\ pc = "constructed"
        /\ self.date = args.date
        /\ \A i \in DOMAIN hist : hist[i].date = args.date
        /\ (args.to = None \/ (Comparable(args.date, args.to) /\ Le(args.date, args.to))) =>
               \A i \in DOMAIN hist : Returned(i) /\ hist[i].ret = args.date

C10_Witness ==
    /\ pc = "constructed"
    /\ Len(hist) = MaxCalls
    /\ args.date = date(Date20090621)
    /\ args.to = date(Date20090621)
    /\ args.step = [type |-> "str", value |-> Str(<<"4", " ", "h", "o", "u", "r", "s">>)]
    /\ Returned(MaxCalls)

====
